---- MODULE Spec2Model ----
(***************************************************************************)
(* A model of duktape-py (src/duktape.pyx): the bridge between Python and  *)
(* the Duktape ECMAScript engine.                                          *)
(*                                                                         *)
(* Spec      the reference table (_ref_map / _ref_count), the host proxies *)
(*           and the array proxy, over a heap whose objects are allocated  *)
(*           at addresses that the engine reuses after collection.         *)
(***************************************************************************)
EXTENDS Integers, Sequences, FiniteSets, TLC

VARIABLES
    objs,       \* live script objects: heap address -> [kind, elems]
    globals,    \* the global object: key -> script value
    stack,      \* the value stack of the root context
    refMap,     \* global stash _ref_map:   ref id -> script value
    refCount,   \* global stash _ref_count: ref id -> integer
    proxies,    \* host proxies not yet finalized: slot -> proxy or NoProxy
    fatal,      \* the engine's fatal error handler ran (process aborted)
    last,       \* outcome of the last host-level operation
    txt,        \* SpecText: a text on its way through the transcoders
    conv,       \* SpecConv: a host value on its way through to_js / to_python
    dat,        \* SpecDate: a date/time value on its way through the codec
    call,       \* SpecCall: a host call into script and its outcome
    obj,        \* SpecObject: an object proxy, its object and the last operation
    gens,       \* SpecKeys: the keys() iterations in progress
    enc,        \* SpecEncode: a host value handed to to_js and what came of it
    dec,        \* SpecDecode: a script value handed to to_python and what came of it
    thr,        \* SpecThreads: the execution contexts of one engine and their host handles
    fn          \* SpecFunc: a host closure, its references and its script wrappers

refVars == <<objs, globals, stack, refMap, refCount, proxies, fatal, last>>

moreVars == <<obj, gens, enc, dec, thr, fn>>

auxVars == <<txt, conv, dat, call, moreVars>>

vars == <<objs, globals, stack, refMap, refCount, proxies, fatal, last, txt, conv, dat, call,
          obj, gens, enc, dec, thr, fn>>

----------------------------------------------------------------------------
(* Bounds of the model *)

NAddr == 2          \* heap addresses the allocator can hand out
MaxProxies == 2     \* host proxies alive at the same time
MaxLen == 2         \* longest host list pushed / longest script array
MaxStack == 1       \* values left on the stack by Context._push

Keys == {"a"}
Addrs == 1..NAddr
Slots == 1..MaxProxies
PushInts == {7}
InsertInts == {5}
Indexes == (0 - (MaxLen + 1))..MaxLen

----------------------------------------------------------------------------
(* Script values and the value stack *)

Undef == [t |-> "undefined", v |-> 0]
Num(n) == [t |-> "num", v |-> n]
Ref(s) == [t |-> "obj", v |-> s]
StashVal == [t |-> "stash", v |-> 0]

Range(f) == {f[x] : x \in DOMAIN f}

Push(s, val) == Append(s, val)
PopN(s, n) == SubSeq(s, 1, Len(s) - n)
Top(s) == s[Len(s)]

\* A host proxy: its class, its ref_id, and (for the statements below) the
\* address of the object it was made for and whether that object has been
\* freed since.
NoProxy == [kind |-> "none", ref |-> <<>>, addr |-> 0, stale |-> FALSE]
NoResult == [op |-> "none", outcome |-> "none", val |-> Undef, d0 |-> 0, d1 |-> 0,
             idx |-> 0, n |-> 0, arr |-> <<>>]

\* hex(<uintptr_t>duk_get_heapptr(ctx, idx)): the reference id of an object is
\* the text of its heap address.
HexOf(addr) == <<"0x", addr>>
RefIdOf(addr) == HexOf(addr)

FreeAddrs(os) == Addrs \ DOMAIN os
FreeSlots(ps) == {k \in Slots : ps[k] = NoProxy}

ObjIdsIn(vals) == {x.v : x \in {y \in vals : y.t = "obj"}}

RECURSIVE Reach(_, _)
Reach(os, set) ==
    LET inner == UNION {ObjIdsIn(Range(os[s].elems)) : s \in set \cap DOMAIN os}
        nxt == set \cup inner
    IN IF nxt = set THEN set ELSE Reach(os, nxt)

\* What the engine's collector can still find: the global object, the value
\* stack and the global stash (_ref_map), and what those refer to.
Reachable(os, gl, st, rm) ==
    Reach(os, ObjIdsIn(Range(gl)) \cup ObjIdsIn(Range(st)) \cup ObjIdsIn(Range(rm)))

----------------------------------------------------------------------------
(* The engine's stack primitives.  A machine is the value stack together   *)
(* with the flag "the engine raised an error outside any protected call",  *)
(* which ends in the fatal error handler.                                  *)

Mach(s, f) == [stk |-> s, fatal |-> f]

\* duk_pop: popping an empty stack is an engine error.
DukPop(m) ==
    IF m.fatal \/ Len(m.stk) = 0 THEN Mach(m.stk, TRUE)
    ELSE Mach(PopN(m.stk, 1), FALSE)

DukPush(m, val) == IF m.fatal THEN m ELSE Mach(Push(m.stk, val), FALSE)

----------------------------------------------------------------------------
(* The reference table *)

RefCountGet(rc, id) == IF id \in DOMAIN rc THEN rc[id] ELSE 0

TablePut(tbl, id, val) == [k \in DOMAIN tbl \cup {id} |-> IF k = id THEN val ELSE tbl[k]]
TableDel(tbl, id) == [k \in DOMAIN tbl \ {id} |-> tbl[k]]

\* JsProxy.push_proxy_ref: [ ... ] -> [ ... obj ]; a missing key reads as
\* undefined.
Resolve(rm, id) == IF id \in DOMAIN rm THEN rm[id] ELSE Undef

PushProxyRef(m, rm, id) ==
    LET m1 == DukPush(m, StashVal)
        m2 == DukPush(m1, StashVal)
        m3 == DukPush(m2, Resolve(rm, id))
    IN IF m.fatal THEN m
       ELSE Mach(PopN(m3.stk, 3) \o <<Top(m3.stk)>>, FALSE)

PopProxyRef(m) == DukPop(m)

\* to_python_proxy, lines 301-309: the proxy class chosen for a script value,
\* or TypeError("not proxable").
ProxyKind(os, val, pojoOnly) ==
    IF val.t # "obj" THEN "TypeError"
    ELSE IF os[val.v].kind = "function" THEN "JsFunc"
    ELSE IF os[val.v].kind = "array" THEN "JsArray"
    ELSE IF os[val.v].kind = "plain" \/ ~pojoOnly THEN "JsDict"
    ELSE "TypeError"

\* to_python_proxy, lines 311-320: _ref_map[ref_id] = value and
\* _ref_count[ref_id] = (_ref_count[ref_id] or 0) + 1.
ProxyRefMap(rm, id, val) == TablePut(rm, id, val)
ProxyRefCount(rc, id) == TablePut(rc, id, RefCountGet(rc, id) + 1)

\* The stack during lines 311-320: three values pushed, three popped.
ProxyStack(m, val) ==
    LET a == DukPush(DukPush(DukPush(m, StashVal), StashVal), val)
        b == DukPop(DukPop(a))
        c == DukPush(DukPush(DukPush(b, StashVal), StashVal), StashVal)
    IN DukPop(DukPop(DukPop(DukPop(c))))

NewProxy(os, val, pojoOnly) ==
    [kind |-> ProxyKind(os, val, pojoOnly), ref |-> RefIdOf(val.v), addr |-> val.v,
     stale |-> FALSE]

\* finalize_proxy, lines 322-336.
FinalRefCount(rc, id) ==
    IF RefCountGet(rc, id) - 1 = 0 THEN TableDel(rc, id)
    ELSE TablePut(rc, id, RefCountGet(rc, id) - 1)

\* finalize_proxy that forgets the _ref_map entry when the count reaches zero.
FinalRefMapKept(rm, rc, id) == rm

\* finalize_proxy that drops the _ref_map entry whatever the count.
FinalRefMapAlways(rm, rc, id) == TableDel(rm, id)

FinalRefMap(rm, rc, id) ==
    IF RefCountGet(rc, id) - 1 = 0 THEN TableDel(rm, id) ELSE rm

FinalStackLeaks(m, rc, id) ==
    DukPush(DukPush(DukPush(m, StashVal), StashVal), StashVal)

FinalStack(m, rc, id) ==
    LET a == DukPush(DukPush(DukPush(m, StashVal), StashVal), StashVal)
    IN IF id \notin DOMAIN rc THEN Mach(m.stk, TRUE)   \* duk_require_int(undefined)
       ELSE IF rc[id] - 1 = 0
            THEN DukPop(DukPop(DukPush(DukPop(DukPop(a)), StashVal)))
            ELSE DukPop(DukPop(DukPop(DukPop(DukPush(a, StashVal)))))

----------------------------------------------------------------------------
(* Host values handed to to_js in this specification *)

HostVal(h, items, p) == [h |-> h, items |-> items, p |-> p]

\* The host lists pushed: [7], [7, 8], ... so that the elements of an array
\* differ from each other.
IntLists == {[j \in 1..n |-> 6 + j] : n \in 0..MaxLen}

HostVals ==
    {HostVal("int", <<n>>, 0) : n \in PushInts}
    \cup {HostVal("list", l, 0) : l \in IntLists}
    \cup {HostVal("dict", <<>>, 0), HostVal("func", <<>>, 0)}
    \cup {HostVal("proxylist", <<>>, k) : k \in Slots}

Allocates(hv) == hv.h \in {"list", "dict", "func", "proxylist"}

\* to_js_array / to_js_dict / to_js_func: the script object built for a host
\* list, dict or callable.
NewObj(hv, rm, ps) ==
    [kind |-> IF hv.h = "dict" THEN "plain"
              ELSE IF hv.h = "func" THEN "function" ELSE "array",
     elems |-> IF hv.h = "list" THEN [j \in 1..Len(hv.items) |-> Num(hv.items[j])]
               ELSE IF hv.h = "proxylist" THEN <<Resolve(rm, ps[hv.p].ref)>>
               ELSE <<>>]

\* to_js accepts the value: a proxy inside a list must be a JsArray, JsObject
\* or JsDict to take the push_proxy_ref branch (line 929).
Encodable(hv, ps) ==
    hv.h = "proxylist" => ps[hv.p].kind \in {"JsArray", "JsDict"}

Done(op) == [NoResult EXCEPT !.op = op, !.outcome = "ok"]

Result(op, outcome, val, d0, d1, idx, n, arr) ==
    [op |-> op, outcome |-> outcome, val |-> val, d0 |-> d0, d1 |-> d1,
     idx |-> idx, n |-> n, arr |-> arr]

----------------------------------------------------------------------------
(* Spec: the operations *)

Idle == [phase |-> "idle"]

MoreIdle == obj = Idle /\ gens = Idle /\ enc = Idle /\ dec = Idle /\ thr = Idle /\ fn = Idle

RefInit ==
    /\ objs = <<>>
    /\ globals = [k \in Keys |-> Undef]
    /\ stack = <<>>
    /\ refMap = <<>>
    /\ refCount = <<>>
    /\ proxies = [k \in Slots |-> NoProxy]
    /\ fatal = FALSE
    /\ last = NoResult

Init ==
    /\ RefInit
    /\ txt = Idle /\ conv = Idle /\ dat = Idle /\ call = Idle
    /\ MoreIdle

\* Context.__setitem__ (lines 1180-1182): to_js(value), then
\* duk_put_global_string pops the value into the global object.
SetGlobal(key, hv) ==
    /\ UNCHANGED auxVars
    /\ ~fatal
    /\ Encodable(hv, proxies)
    /\ IF Allocates(hv)
       THEN \E addr \in FreeAddrs(objs) :
                 /\ objs' = TablePut(objs, addr, NewObj(hv, refMap, proxies))
                 /\ globals' = [globals EXCEPT ![key] = Ref(addr)]
       ELSE /\ globals' = [globals EXCEPT ![key] = Num(hv.items[1])]
            /\ UNCHANGED objs
    /\ last' = Done("setitem")
    /\ UNCHANGED <<stack, refMap, refCount, proxies, fatal>>

\* Context._push (lines 1249-1250): to_js(value) leaves the value on the stack.
PushValue(hv) ==
    /\ UNCHANGED auxVars
    /\ ~fatal
    /\ Len(stack) < MaxStack
    /\ hv.h \in {"int", "proxylist"}
    /\ Encodable(hv, proxies)
    /\ stack' = IF hv.h = "int" THEN Push(stack, Num(hv.items[1]))
                ELSE PushProxyRef(Mach(stack, FALSE), refMap, proxies[hv.p].ref).stk
    /\ last' = Done("_push")
    /\ UNCHANGED <<objs, globals, refMap, refCount, proxies, fatal>>

\* Context.proxy (lines 1282-1289): the global is pushed, to_python_proxy
\* (pojo_only=False) makes the proxy, the global is popped.
Proxy(key) ==
    /\ UNCHANGED auxVars
    /\ ~fatal
    /\ globals[key] # Undef
    /\ LET val == globals[key]
           m1 == DukPush(Mach(stack, FALSE), val)
           kind == ProxyKind(objs, val, FALSE)
       IN IF kind = "TypeError"
          THEN /\ stack' = DukPop(m1).stk
               /\ last' = Done("proxy")
               /\ UNCHANGED <<refMap, refCount, proxies, fatal>>
          ELSE /\ FreeSlots(proxies) # {}
               /\ LET slot == CHOOSE k \in FreeSlots(proxies) : \A j \in FreeSlots(proxies) : k <= j
                      m2 == DukPop(ProxyStack(m1, val))
                  IN /\ proxies' = [proxies EXCEPT ![slot] = NewProxy(objs, val, FALSE)]
                     /\ refMap' = ProxyRefMap(refMap, RefIdOf(val.v), val)
                     /\ refCount' = ProxyRefCount(refCount, RefIdOf(val.v))
                     /\ stack' = m2.stk
                     /\ fatal' = m2.fatal
                     /\ last' = Done("proxy")
    /\ UNCHANGED <<objs, globals>>

\* The host drops its last reference to a proxy: weakref.finalize runs
\* finalize_proxy(ref_id) (lines 322-337).
FinalizeProxy(k) ==
    /\ UNCHANGED auxVars
    /\ ~fatal
    /\ proxies[k] # NoProxy
    /\ LET id == proxies[k].ref
           m == FinalStack(Mach(stack, FALSE), refCount, id)
       IN /\ proxies' = [proxies EXCEPT ![k] = NoProxy]
          /\ fatal' = m.fatal
          /\ stack' = m.stk
          /\ refCount' = IF m.fatal THEN refCount ELSE FinalRefCount(refCount, id)
          /\ refMap' = IF m.fatal THEN refMap ELSE FinalRefMap(refMap, refCount, id)
          /\ last' = Done("finalize")
    /\ UNCHANGED <<objs, globals>>

\* Context.gc (lines 1243-1244), or the engine's own collection: objects that
\* nothing reachable refers to are freed, and their addresses become free.
Gc ==
    /\ UNCHANGED auxVars
    /\ ~fatal
    /\ DOMAIN objs # Reachable(objs, globals, stack, refMap) \cap DOMAIN objs
    /\ objs' = [s \in Reachable(objs, globals, stack, refMap) \cap DOMAIN objs |-> objs[s]]
    /\ proxies' = [k \in Slots |->
                      IF proxies[k] # NoProxy /\ proxies[k].addr \notin DOMAIN objs'
                      THEN [proxies[k] EXCEPT !.stale = TRUE] ELSE proxies[k]]
    /\ last' = Done("gc")
    /\ UNCHANGED <<globals, stack, refMap, refCount, fatal>>

----------------------------------------------------------------------------
(* ArrayProxy *)

\* Cython converts the Python index to duk_uarridx_t (unsigned int,
\* cduk.pxd line 12) before duk_get_prop_index is entered; a negative value
\* raises OverflowError.  (The upper limit 2^32-1 lies above every index drawn
\* here.)
CanConvertUArrIdx(i) == i >= 0

\* ArrayProxy.length (lines 557-562) under push_and_pop_proxy: the proxy
\* reference and the length are pushed and popped again.
LengthStack(m, rm, id, n) ==
    PopProxyRef(DukPop(DukPush(PushProxyRef(m, rm, id), Num(n))))

\* Array.prototype.splice: the start position for a requested index.
SpliceStart(i, n) ==
    IF i < 0 THEN (IF n + i < 0 THEN 0 ELSE n + i)
    ELSE (IF i > n THEN n ELSE i)

SeqInsert(sq, pos, val) ==
    SubSeq(sq, 1, pos) \o <<val>> \o SubSeq(sq, pos + 1, Len(sq))

SeqRemoveLast(sq, pos) == SubSeq(sq, 1, Len(sq) - 1)

SeqRemove(sq, pos) ==
    IF pos >= Len(sq) THEN sq
    ELSE SubSeq(sq, 1, pos) \o SubSeq(sq, pos + 2, Len(sq))

\* ArrayProxy.get(index) for an integer index (lines 518-537), run under
\* push_and_pop_proxy (lines 360-367).  GetRun gives the machine after the
\* call, the outcome and the script value read.
GetRun(m0, os, rm, id, i) ==
    LET m1 == PushProxyRef(m0, rm, id)
        base == Top(m1.stk)
    IN IF base.t # "obj"
       THEN [m |-> Mach(m0.stk, TRUE), outcome |-> "fatal", val |-> Undef, n |-> 0, arr |-> <<>>]
       ELSE
         LET arr == os[base.v].elems
             n == Len(arr)
             mL == IF i < 0 THEN LengthStack(m1, rm, id, n) ELSE m1
             index == IF i < 0 THEN n + i ELSE i
         IN IF ~CanConvertUArrIdx(index)
            THEN \* OverflowError before the engine call; both finally blocks pop
                 LET m3 == PopProxyRef(DukPop(mL))
                 IN [m |-> m3, outcome |-> IF m3.fatal THEN "fatal" ELSE "OverflowError",
                     val |-> Undef, n |-> n, arr |-> arr]
            ELSE IF index < n
            THEN LET el == arr[index + 1]
                     m2 == DukPush(mL, el)
                     m3 == IF ProxyKind(os, el, TRUE) = "TypeError" THEN m2 ELSE ProxyStack(m2, el)
                     m5 == PopProxyRef(DukPop(m3))
                 IN [m |-> m5,
                     outcome |-> IF ProxyKind(os, el, TRUE) = "TypeError" THEN "value" ELSE "proxy",
                     val |-> el, n |-> n, arr |-> arr]
            ELSE LET m5 == PopProxyRef(DukPop(DukPush(mL, Undef)))
                 IN [m |-> m5, outcome |-> "IndexError", val |-> Undef, n |-> n, arr |-> arr]

ArrayGet(k, i) ==
    /\ UNCHANGED auxVars
    /\ ~fatal
    /\ proxies[k].kind = "JsArray"
    /\ LET r == GetRun(Mach(stack, FALSE), objs, refMap, proxies[k].ref, i)
       IN /\ stack' = r.m.stk
          /\ fatal' = r.m.fatal
          /\ last' = Result("get", r.outcome, r.val, Len(stack), Len(r.m.stk), i, r.n, r.arr)
          /\ IF r.outcome = "proxy"
             THEN /\ FreeSlots(proxies) # {}
                  /\ LET slot == CHOOSE s \in FreeSlots(proxies) : \A j \in FreeSlots(proxies) : s <= j
                     IN proxies' = [proxies EXCEPT ![slot] = NewProxy(objs, r.val, TRUE)]
                  /\ refMap' = ProxyRefMap(refMap, RefIdOf(r.val.v), r.val)
                  /\ refCount' = ProxyRefCount(refCount, RefIdOf(r.val.v))
             ELSE UNCHANGED <<proxies, refMap, refCount>>
    /\ UNCHANGED <<objs, globals>>

\* The array a JsArray proxy stands for, when its reference resolves.
ProxiedArray(k) == Resolve(refMap, proxies[k].ref)

\* ArrayProxy.insert(index, item) (lines 564-571): splice(index, 0, item).
ArrayInsert(k, i, n) ==
    /\ UNCHANGED auxVars
    /\ ~fatal
    /\ proxies[k].kind = "JsArray"
    /\ ProxiedArray(k).t = "obj"
    /\ LET o == ProxiedArray(k).v
           arr == objs[o].elems
           m1 == PushProxyRef(Mach(stack, FALSE), refMap, proxies[k].ref)
           m2 == DukPush(DukPush(DukPush(DukPush(m1, StashVal), Num(i)), Num(0)), Num(n))
           m3 == DukPush(DukPop(DukPop(DukPop(DukPop(m2)))), StashVal)   \* duk_pcall_prop
           m4 == PopProxyRef(DukPop(m3))
       IN /\ Len(arr) < MaxLen
          /\ objs' = [objs EXCEPT ![o].elems = SeqInsert(arr, SpliceStart(i, Len(arr)), Num(n))]
          /\ stack' = m4.stk
          /\ fatal' = m4.fatal
          /\ last' = Done("insert")
    /\ UNCHANGED <<globals, refMap, refCount, proxies>>

\* ArrayProxy.delete(index) (lines 547-555): IndexError when index >= length,
\* else splice(index, 1).
ArrayDelete(k, i) ==
    /\ UNCHANGED auxVars
    /\ ~fatal
    /\ proxies[k].kind = "JsArray"
    /\ ProxiedArray(k).t = "obj"
    /\ LET o == ProxiedArray(k).v
           arr == objs[o].elems
           m1 == PushProxyRef(Mach(stack, FALSE), refMap, proxies[k].ref)
           mL == LengthStack(m1, refMap, proxies[k].ref, Len(arr))
           m2 == DukPush(DukPush(DukPush(mL, StashVal), Num(i)), Num(1))
           m3 == DukPush(DukPop(DukPop(DukPop(m2))), StashVal)   \* duk_pcall_prop
           m4 == PopProxyRef(DukPop(m3))
           mE == PopProxyRef(mL)
       IN IF i >= Len(arr)
          THEN /\ stack' = mE.stk
               /\ fatal' = mE.fatal
               /\ last' = [Done("delete") EXCEPT !.outcome = "IndexError"]
               /\ UNCHANGED objs
          ELSE /\ objs' = [objs EXCEPT ![o].elems = SeqRemove(arr, SpliceStart(i, Len(arr)))]
               /\ stack' = m4.stk
               /\ fatal' = m4.fatal
               /\ last' = Done("delete")
    /\ UNCHANGED <<globals, refMap, refCount, proxies>>

\* Spec: the reference table under proxy creation (Context.proxy and
\* ArrayProxy.get of an object element), finalization and collection.
\* The arrays of Spec are empty or hold one object, so the indexes -2..1 cover
\* every case of ArrayProxy.get on them.
RefVals == {hv \in HostVals : hv.h = "list" => hv.items = <<>>}
RefIndexes == {0 - 2, 0 - 1, 0, 1}

Next ==
    \/ \E key \in Keys, hv \in RefVals : SetGlobal(key, hv)
    \/ \E key \in Keys : Proxy(key)
    \/ \E k \in Slots : FinalizeProxy(k)
    \/ Gc
    \/ \E k \in Slots, i \in RefIndexes : ArrayGet(k, i)

Spec == Init /\ [][Next]_vars

\* SpecArray: the array proxy over arrays of numbers, with values left on the
\* stack by earlier calls.
ListVals == {hv \in HostVals : hv.h = "list"}

NextArray ==
    \/ \E key \in Keys, hv \in ListVals : SetGlobal(key, hv)
    \/ \E hv \in HostVals : PushValue(hv)
    \/ \E key \in Keys : Proxy(key)
    \/ \E k \in Slots : FinalizeProxy(k)
    \/ \E k \in Slots, i \in Indexes : ArrayGet(k, i)
    \/ \E k \in Slots, i \in Indexes, n \in InsertInts : ArrayInsert(k, i, n)
    \/ \E k \in Slots, i \in Indexes : ArrayDelete(k, i)

SpecArray == Init /\ [][NextArray]_vars

\* SpecSplice: insert and delete on arrays of numbers, with values left on
\* the stack by earlier calls.
NextSplice ==
    \/ \E key \in Keys, hv \in ListVals : SetGlobal(key, hv)
    \/ \E hv \in HostVals : PushValue(hv)
    \/ \E key \in Keys : Proxy(key)
    \/ \E k \in Slots, i \in Indexes, n \in InsertInts : ArrayInsert(k, i, n)
    \/ \E k \in Slots, i \in Indexes : ArrayDelete(k, i)

SpecSplice == Init /\ [][NextSplice]_vars

----------------------------------------------------------------------------
(* Text transcoding: unicode_encode_cesu8 and unicode_decode_cesu8 *)

RECURSIVE BitAnd(_, _)
BitAnd(a, b) ==
    IF a = 0 \/ b = 0 THEN 0
    ELSE (a % 2) * (b % 2) + 2 * BitAnd(a \div 2, b \div 2)

RECURSIVE BitOr(_, _)
BitOr(a, b) ==
    IF a = 0 THEN b
    ELSE IF b = 0 THEN a
    ELSE (IF a % 2 = 1 \/ b % 2 = 1 THEN 1 ELSE 0) + 2 * BitOr(a \div 2, b \div 2)

Shr(a, k) == a \div (2 ^ k)
Shl(a, k) == a * (2 ^ k)

\* The bytes unicode_encode_cesu8 appends for one code point (lines 72-89).
EncodeCp(x) ==
    IF x < 128 THEN <<x>>
    ELSE IF x < 2048
    THEN <<192 + BitAnd(Shr(x, 6), 31), 128 + BitAnd(x, 63)>>
    ELSE IF x < 65536
    THEN <<224 + BitAnd(Shr(x, 12), 15), 128 + BitAnd(Shr(x, 6), 63), 128 + BitAnd(x, 63)>>
    ELSE LET y == x - 65536
         IN <<237, 160 + BitAnd(Shr(y, 16), 15), 128 + BitAnd(Shr(y, 10), 63),
              237, 176 + BitAnd(Shr(y, 6), 15), 128 + BitAnd(y, 63)>>

\* unicode_encode_cesu8 (lines 67-90): the bytes of every code point in order.
RECURSIVE UnicodeEncodeCesu8(_)
UnicodeEncodeCesu8(cps) ==
    IF cps = <<>> THEN <<>>
    ELSE EncodeCp(Head(cps)) \o UnicodeEncodeCesu8(Tail(cps))

\* A C string ends at its first zero byte: what strlen-based calls
\* (duk_push_string, duk_put_prop_string, char*.decode()) see of a buffer.
RECURSIVE CStr(_)
CStr(b) ==
    IF b = <<>> \/ Head(b) = 0 THEN <<>>
    ELSE <<Head(b)>> \o CStr(Tail(b))

\* The test of lines 42-47 at position i (1-based here) of a buffer.
IsSurrogatePairAt(b, i) ==
    /\ b[i] = 237
    /\ (i - 1) + 5 < Len(b)
    /\ 160 <= b[i + 1] /\ b[i + 1] <= 175
    /\ 128 <= b[i + 2] /\ b[i + 2] <= 191
    /\ b[i + 3] = 237
    /\ 176 <= b[i + 4] /\ b[i + 4] <= 191
    /\ 128 <= b[i + 5] /\ b[i + 5] <= 191

\* The conversion of lines 51-54 without the "+1" that carries the plane
\* offset 0x10000 into the UTF-8 lead bytes.
PairToUtf8NoCarry(b, i) ==
    <<BitOr(240, Shr(BitAnd(b[i + 1], 28), 2)),
      BitOr(BitOr(128, Shl(BitAnd(b[i + 1], 3), 4)), Shr(BitAnd(b[i + 2], 60), 2)),
      BitOr(BitOr(128, Shl(BitAnd(b[i + 2], 3), 4)), BitAnd(b[i + 4], 15)),
      b[i + 5]>>

\* Lines 51-54: the four UTF-8 bytes made from a CESU-8 surrogate pair.
PairToUtf8(b, i) ==
    <<BitOr(240, Shr(BitAnd(b[i + 1] + 1, 28), 2)),
      BitOr(BitOr(128, Shl(BitAnd(b[i + 1] + 1, 3), 4)), Shr(BitAnd(b[i + 2], 60), 2)),
      BitOr(BitOr(128, Shl(BitAnd(b[i + 2], 3), 4)), BitAnd(b[i + 4], 15)),
      b[i + 5]>>

\* The loop of lines 36-59.  started says whether utf8_bytes has been made;
\* the result is [started, out].
RECURSIVE Cesu8Loop(_, _, _, _)
Cesu8Loop(b, i, started, out) ==
    IF i > Len(b) \/ b[i] = 0 THEN [started |-> started, out |-> out]
    ELSE IF IsSurrogatePairAt(b, i)
    THEN Cesu8Loop(b, i + 6, TRUE,
                   (IF started THEN out ELSE SubSeq(b, 1, i - 1)) \o PairToUtf8(b, i))
    ELSE Cesu8Loop(b, i + 1, started, IF started THEN Append(out, b[i]) ELSE out)

\* The bytes that line 60 hands to .decode(): utf8_bytes when it was made,
\* else the C string itself.
Cesu8ToUtf8(b) ==
    LET r == Cesu8Loop(b, 1, FALSE, <<>>)
    IN IF r.started THEN r.out ELSE CStr(b)

IsCont(x) == 128 <= x /\ x <= 191

\* Python's strict UTF-8 decoder (the .decode() of line 60): the code points,
\* or ok = FALSE for UnicodeDecodeError.
RECURSIVE Utf8Decode(_)
Utf8Decode(b) ==
    IF b = <<>> THEN [ok |-> TRUE, cps |-> <<>>]
    ELSE
      LET b0 == b[1]
          need == IF b0 < 128 THEN 1
                  ELSE IF 194 <= b0 /\ b0 <= 223 THEN 2
                  ELSE IF 224 <= b0 /\ b0 <= 239 THEN 3
                  ELSE IF 240 <= b0 /\ b0 <= 244 THEN 4
                  ELSE 0
          wellFormed == /\ need > 0
                        /\ Len(b) >= need
                        /\ \A j \in 2..need : IsCont(b[j])
          cp == IF need = 1 THEN b0
                ELSE IF need = 2 THEN (b0 % 32) * 64 + (b[2] % 64)
                ELSE IF need = 3
                THEN (b0 % 16) * 4096 + (b[2] % 64) * 64 + (b[3] % 64)
                ELSE (b0 % 8) * 262144 + (b[2] % 64) * 4096 + (b[3] % 64) * 64 + (b[4] % 64)
          valid == /\ wellFormed
                   /\ (need = 3 => cp >= 2048 /\ ~(55296 <= cp /\ cp <= 57343))
                   /\ (need = 4 => cp >= 65536 /\ cp <= 1114111)
          rest == IF valid THEN Utf8Decode(SubSeq(b, need + 1, Len(b)))
                  ELSE [ok |-> FALSE, cps |-> <<>>]
      IN IF valid /\ rest.ok THEN [ok |-> TRUE, cps |-> <<cp>> \o rest.cps]
         ELSE [ok |-> FALSE, cps |-> <<>>]

\* unicode_decode_cesu8 (lines 31-60).
UnicodeDecodeCesu8(b) == Utf8Decode(Cesu8ToUtf8(b))

----------------------------------------------------------------------------
(* SpecText: one supplementary code point through encoder and decoder *)

CpStride == 4099
CpCount == 255

\* Code points above U+FFFF: a stride through all seventeen planes, the two
\* ends of the range and U+1F600.
SuppCps ==
    {c \in {65536 + k * CpStride : k \in 0..CpCount} : c <= 1114111}
    \cup {65536, 128512, 1114111}

InitText ==
    /\ RefInit
    /\ txt \in {[phase |-> "input", cps |-> <<c>>] : c \in SuppCps}
    /\ conv = Idle /\ dat = Idle /\ call = Idle
    /\ MoreIdle

\* smart_str (lines 63-64) on the way into the engine.
TextEncode ==
    /\ txt.phase = "input"
    /\ txt' = [phase |-> "encoded", cps |-> txt.cps,
               cesu |-> UnicodeEncodeCesu8(txt.cps)]
    /\ UNCHANGED <<refVars, conv, dat, call, moreVars>>

\* unicode_decode_cesu8 on the way out: the UTF-8 bytes built by the loop and
\* the text bytes.decode() makes of them.
TextDecode ==
    /\ txt.phase = "encoded"
    /\ txt' = [phase |-> "decoded", cps |-> txt.cps, cesu |-> txt.cesu,
               utf8 |-> Cesu8ToUtf8(txt.cesu),
               out |-> UnicodeDecodeCesu8(txt.cesu)]
    /\ UNCHANGED <<refVars, conv, dat, call, moreVars>>

NextText ==
    \/ TextEncode
    \/ TextDecode

SpecText == InitText /\ [][NextText]_vars

----------------------------------------------------------------------------
(* SpecConv: host values through to_js and to_python *)

\* A host value: None, bool (n is 0 or 1), int, float (n counts halves, so
\* 3 is 1.5 and 4 is 2.0), the floats nan and inf, str (code points), list,
\* and dict (its items in insertion order).
HV(k, n, cps, items, pairs) ==
    [k |-> k, n |-> n, cps |-> cps, items |-> items, pairs |-> pairs]

PyNone == HV("none", 0, <<>>, <<>>, <<>>)
PyBool(b) == HV("bool", IF b THEN 1 ELSE 0, <<>>, <<>>, <<>>)
PyInt(n) == HV("int", n, <<>>, <<>>, <<>>)
PyFloat(halves) == HV("float", halves, <<>>, <<>>, <<>>)
PyNan == HV("nan", 0, <<>>, <<>>, <<>>)
PyInf == HV("inf", 0, <<>>, <<>>, <<>>)
PyStr(cps) == HV("str", 0, cps, <<>>, <<>>)
PyList(items) == HV("list", 0, <<>>, items, <<>>)
PyDict(pairs) == HV("dict", 0, <<>>, <<>>, pairs)
\* An exception raised instead of a value.
PyRaise(name) == HV("raise", 0, <<>>, <<>>, <<>>)

\* A script value on the value stack.  A number carries halves as above; a
\* string carries its bytes; an object carries its own properties in
\* insertion order.
JV(t, n, by, elems, props) ==
    [t |-> t, n |-> n, by |-> by, elems |-> elems, props |-> props]

JsNull == JV("null", 0, <<>>, <<>>, <<>>)
JsBool(n) == JV("bool", n, <<>>, <<>>, <<>>)
JsNum(halves) == JV("num", halves, <<>>, <<>>, <<>>)
JsNan == JV("nan", 0, <<>>, <<>>, <<>>)
JsInf == JV("inf", 0, <<>>, <<>>, <<>>)
JsStr(by) == JV("str", 0, by, <<>>, <<>>)
JsArr(elems) == JV("array", 0, <<>>, elems, <<>>)
JsObj(props) == JV("object", 0, <<>>, <<>>, props)

\* duk_push_string(ctx, smart_str(value)) (lines 897-898): the CESU-8 bytes
\* are read as a C string.
PushString(cps) == JsStr(CStr(UnicodeEncodeCesu8(cps)))

\* duk_put_prop_string(ctx, -2, smart_str(key)) (line 795): the value of an
\* existing property is replaced, a new property is added at the end.
ObjPut(props, kb, val) ==
    IF \E i \in 1..Len(props) : props[i].key = kb
    THEN [i \in 1..Len(props) |->
             IF props[i].key = kb THEN [key |-> kb, val |-> val] ELSE props[i]]
    ELSE Append(props, [key |-> kb, val |-> val])

RECURSIVE ToJs(_)
RECURSIVE ToJsArray(_)
RECURSIVE ToJsDict(_, _)

\* to_js_array (lines 780-786).
ToJsArray(items) ==
    IF items = <<>> THEN <<>>
    ELSE <<ToJs(Head(items))>> \o ToJsArray(Tail(items))

\* to_js_dict (lines 789-795).
ToJsDict(pairs, props) ==
    IF pairs = <<>> THEN props
    ELSE ToJsDict(Tail(pairs),
                  ObjPut(props, CStr(UnicodeEncodeCesu8(Head(pairs).key)),
                         ToJs(Head(pairs).val)))

\* to_js (lines 891-914) for the kinds None, str, bool, int, float, list and
\* dict.
ToJs(v) ==
    IF v.k = "none" THEN JsNull
    ELSE IF v.k = "str" THEN PushString(v.cps)
    ELSE IF v.k = "bool" THEN JsBool(v.n)
    ELSE IF v.k = "int" THEN JsNum(2 * v.n)
    ELSE IF v.k = "float" THEN JsNum(v.n)
    ELSE IF v.k = "nan" THEN JsNan
    ELSE IF v.k = "inf" THEN JsInf
    ELSE IF v.k = "list" THEN JsArr(ToJsArray(v.items))
    ELSE JsObj(ToJsDict(v.pairs, <<>>))

\* to_python_string (lines 262-265).
ToPythonString(by) ==
    LET r == UnicodeDecodeCesu8(by)
    IN IF r.ok THEN PyStr(r.cps) ELSE PyRaise("UnicodeDecodeError")

\* ret[key] = value on a host dict.
DictPut(pairs, key, val) ==
    IF \E i \in 1..Len(pairs) : pairs[i].key = key
    THEN [i \in 1..Len(pairs) |->
             IF pairs[i].key = key THEN [key |-> key, val |-> val] ELSE pairs[i]]
    ELSE Append(pairs, [key |-> key, val |-> val])

RECURSIVE ToPython(_)
RECURSIVE ToPythonList(_, _)
RECURSIVE ToPythonDict(_, _)

\* to_python_list (lines 274-281): the first element that fails to decode
\* ends the loop with its exception.
ToPythonList(elems, ret) ==
    IF elems = <<>> THEN PyList(ret)
    ELSE LET x == ToPython(Head(elems))
         IN IF x.k = "raise" THEN x
            ELSE ToPythonList(Tail(elems), Append(ret, x))

\* to_python_dict (lines 284-292).
ToPythonDict(props, ret) ==
    IF props = <<>> THEN PyDict(ret)
    ELSE LET key == ToPythonString(Head(props).key)
             val == ToPython(Head(props).val)
         IN IF key.k = "raise" THEN key
            ELSE IF val.k = "raise" THEN val
            ELSE ToPythonDict(Tail(props), DictPut(ret, key.cps, val))

\* to_python with line 644 returning num as it is, a float also when integral.
ToPythonNumAsFloat(j) ==
    IF j.t = "bool" THEN PyBool(j.n = 1)
    ELSE IF j.t = "nan" THEN PyNan
    ELSE IF j.t \in {"null", "undefined"} THEN PyNone
    ELSE IF j.t = "num" THEN PyFloat(j.n)
    ELSE IF j.t = "inf" THEN PyInf
    ELSE IF j.t = "str" THEN ToPythonString(j.by)
    ELSE IF j.t = "array" THEN ToPythonList(j.elems, <<>>)
    ELSE ToPythonDict(j.props, <<>>)

\* to_python (lines 634-653) for booleans, NaN, null, numbers, strings,
\* arrays and plain objects.
ToPython(j) ==
    IF j.t = "bool" THEN PyBool(j.n = 1)
    ELSE IF j.t = "nan" THEN PyNan
    ELSE IF j.t \in {"null", "undefined"} THEN PyNone
    ELSE IF j.t = "num" THEN (IF j.n % 2 = 0 THEN PyInt(j.n \div 2) ELSE PyFloat(j.n))
    ELSE IF j.t = "inf" THEN PyInf
    ELSE IF j.t = "str" THEN ToPythonString(j.by)
    ELSE IF j.t = "array" THEN ToPythonList(j.elems, <<>>)
    ELSE ToPythonDict(j.props, <<>>)

\* Python's == on the values above.
RECURSIVE PyEq(_, _)
PyEq(a, b) ==
    IF a.k = "raise" \/ b.k = "raise" THEN FALSE
    ELSE IF a.k = "nan" \/ b.k = "nan" THEN FALSE
    ELSE IF a.k \in {"int", "float", "bool"} /\ b.k \in {"int", "float", "bool"}
    THEN (IF a.k = "float" THEN a.n ELSE 2 * a.n) = (IF b.k = "float" THEN b.n ELSE 2 * b.n)
    ELSE IF a.k # b.k THEN FALSE
    ELSE IF a.k = "str" THEN a.cps = b.cps
    ELSE IF a.k = "list"
    THEN /\ Len(a.items) = Len(b.items)
         /\ \A i \in 1..Len(a.items) : PyEq(a.items[i], b.items[i])
    ELSE IF a.k = "dict"
    THEN /\ {a.pairs[i].key : i \in 1..Len(a.pairs)} = {b.pairs[i].key : i \in 1..Len(b.pairs)}
         /\ \A i \in 1..Len(a.pairs) : \A j \in 1..Len(b.pairs) :
               a.pairs[i].key = b.pairs[j].key => PyEq(a.pairs[i].val, b.pairs[j].val)
    ELSE TRUE

\* The texts drawn: empty, ASCII, two- and three-byte characters, U+1F600,
\* U+10FFFF, texts holding U+0000, and a text holding the lone surrogate
\* U+D83D.
ConvTexts ==
    {<<>>, <<97>>, <<97, 98>>, <<233>>, <<8364>>, <<128512>>, <<97, 128512, 98>>,
     <<1114111>>, <<0>>, <<97, 0, 98>>, <<55357>>}

ConvInts == {0 - 3, 0, 1, 7}
ConvHalves == {0 - 3, 1, 3, 4}

ConvLeaves ==
    {PyNone, PyBool(TRUE), PyBool(FALSE), PyNan, PyInf}
    \cup {PyInt(n) : n \in ConvInts}
    \cup {PyFloat(h) : h \in ConvHalves}
    \cup {PyStr(t) : t \in ConvTexts}

ConvKeys == {<<97>>, <<233>>, <<128512>>}

ConvVals ==
    ConvLeaves
    \cup {PyList(<<>>), PyDict(<<>>)}
    \cup {PyList(<<x>>) : x \in ConvLeaves}
    \cup {PyList(<<PyInt(1), x>>) : x \in {PyStr(<<97>>), PyList(<<PyInt(7)>>), PyDict(<<>>)}}
    \cup {PyDict(<<[key |-> k, val |-> x]>>) : k \in ConvKeys, x \in {PyInt(1), PyStr(<<128512>>), PyList(<<PyNone>>)}}
    \cup {PyDict(<<[key |-> <<97>>, val |-> PyInt(1)], [key |-> <<98>>, val |-> x]>>) :
             x \in {PyBool(TRUE), PyDict(<<[key |-> <<97>>, val |-> PyFloat(3)]>>)}}

InitConv ==
    /\ RefInit
    /\ conv \in {[phase |-> "input", v |-> v] : v \in ConvVals}
    /\ txt = Idle /\ dat = Idle /\ call = Idle
    /\ MoreIdle

\* Context.__setitem__ (lines 1180-1182): to_js(value) and the value becomes a
\* global.
ConvSetItem ==
    /\ conv.phase = "input"
    /\ conv' = [phase |-> "stored", v |-> conv.v, js |-> ToJs(conv.v)]
    /\ UNCHANGED <<refVars, txt, dat, call, moreVars>>

\* Context.__getitem__ (lines 1184-1186): the global is pushed and decoded by
\* to_python.
ConvGetItem ==
    /\ conv.phase = "stored"
    /\ conv' = [phase |-> "decoded", v |-> conv.v, js |-> conv.js,
                out |-> ToPython(conv.js)]
    /\ UNCHANGED <<refVars, txt, dat, call, moreVars>>

NextConv ==
    \/ ConvSetItem
    \/ ConvGetItem

SpecConv == InitConv /\ [][NextConv]_vars

----------------------------------------------------------------------------
(* SpecDate: date/time values through to_js_date and to_python *)

UsecsInSec == 1000000
SecsInDay == 86400

\* The last day datetime can hold, 9999-12-31, counted from 1970-01-01.
MaxDays == 2932896

\* A double has 53 significant bits; 10^6 = 15625 * 2^6 has 14.
MantissaBits == 53
MillionBits == 14

\* An integer count of microseconds, kept as timedelta keeps it (lines 805-808):
\* days * USECS_IN_DAY + secs * USECS_IN_SEC + us.
Usec(d, s, u) == [days |-> d, secs |-> s, us |-> u]

NormUsec(t) ==
    LET s1 == t.secs + (t.us \div UsecsInSec)
    IN Usec(t.days + (s1 \div SecsInDay), s1 % SecsInDay, t.us % UsecsInSec)

LeqUsec(a, b) ==
    \/ a.days < b.days
    \/ a.days = b.days /\ a.secs < b.secs
    \/ a.days = b.days /\ a.secs = b.secs /\ a.us <= b.us

Scale(t, f) == NormUsec(Usec(t.days * f, t.secs * f, t.us * f))

\* t * 2^p, eight doublings at a time.
RECURSIVE TimesPow2(_, _)
TimesPow2(t, p) ==
    IF p < 8 THEN Scale(t, 2 ^ p)
    ELSE Scale(TimesPow2(t, p - 8), 256)

RoundHalfEven(n, d) ==
    LET q == n \div d
        r == n % d
    IN IF 2 * r < d THEN q
       ELSE IF 2 * r > d THEN q + 1
       ELSE IF q % 2 = 0 THEN q ELSE q + 1

\* to_epoch_usec (lines 803-808) of a naive datetime given by its distance
\* from UNIX_EPOCH.
ToEpochUsec(days, secs, us) == Usec(days, secs, us)

\* to_js_date (lines 811-826): the datetime encoded for each host type, and
\* the hidden properties epoch_usec and dt_type of the script Date.
DtTypeText(typ) ==
    IF typ = "date" THEN <<100, 97, 116, 101>>
    ELSE IF typ = "time" THEN <<116, 105, 109, 101>>
    ELSE <<100, 97, 116, 101, 116, 105, 109, 101>>

ToJsDate(h) ==
    [epoch_usec |-> IF h.typ = "date" THEN ToEpochUsec(h.days, 0, 0)
                    ELSE IF h.typ = "time" THEN ToEpochUsec(0, h.secs, h.us)
                    ELSE ToEpochUsec(h.days, h.secs, h.us),
     dt_type |-> PushString(DtTypeText(h.typ)).by]

\* The int -> float conversion of "epoch_usec / 1e6" (line 669): a count of
\* 2^53 or more loses its low bits, rounded half to even.  10^6 is a multiple
\* of 2^6, so for up to six lost bits the rounding acts on the us field.
LostBits(t) ==
    Cardinality({p \in MantissaBits..(MantissaBits + 5) :
                    LeqUsec(TimesPow2(Usec(0, 0, 1), p), t)})

IntToDouble(t) ==
    NormUsec(Usec(t.days, t.secs,
                  (2 ^ LostBits(t)) * RoundHalfEven(t.us, 2 ^ LostBits(t))))

\* The number of bits of the whole seconds of t.
SecondBits(t) ==
    Cardinality({e \in 0..40 :
                    LeqUsec(TimesPow2(Usec(0, 1, 0), e), Usec(t.days, t.secs, 0))})

\* (u * 2^i) mod 10^6, eleven doublings at a time.
RECURSIVE RemAt(_, _)
RemAt(u, i) ==
    IF i <= 11 THEN (u * (2 ^ i)) % UsecsInSec
    ELSE (RemAt(u, i - 11) * 2048) % UsecsInSec

\* Bit i of the binary fraction u / 10^6.
FracBit(u, i) == (2 * RemAt(u, i - 1)) \div UsecsInSec

\* The zero bits before the first 1 of the binary fraction u / 10^6, u > 0.
LeadingZeros(u) ==
    Cardinality({i \in 1..20 : u <= (UsecsInSec - 1) \div (2 ^ i)})

\* The fraction bits a double keeps of whole + u / 10^6 when the whole part
\* takes sb of its 53 significant bits.
KeptBits(sb, u) ==
    IF sb > 0 THEN MantissaBits - sb
    ELSE IF u = 0 THEN 0
    ELSE LeadingZeros(u) + MantissaBits

\* bits + 1 in the last place: [bits, carry].
IncBits(bits) ==
    LET zeros == {i \in 1..Len(bits) : bits[i] = 0}
    IN IF zeros = {} THEN [bits |-> [i \in 1..Len(bits) |-> 0], carry |-> 1]
       ELSE LET z == CHOOSE i \in zeros : \A j \in zeros : j <= i
            IN [bits |-> [i \in 1..Len(bits) |->
                            IF i < z THEN bits[i] ELSE IF i = z THEN 1 ELSE 0],
                carry |-> 0]

\* The double float(epoch_usec) / 1e6 (line 669): whole seconds and the bits
\* of the binary fraction, rounded half to even to 53 significant bits.
DivideByMillion(t) ==
    LET k == KeptBits(SecondBits(t), t.us)
        bits == [i \in 1..k |-> FracBit(t.us, i)]
        rem == RemAt(t.us, k)
        last1 == IF k = 0 THEN 0 ELSE bits[k]
        up == \/ 2 * rem > UsecsInSec
              \/ 2 * rem = UsecsInSec /\ last1 = 1
        inc == IncBits(bits)
        whole == IF up /\ inc.carry = 1
                 THEN NormUsec(Usec(t.days, t.secs + 1, 0))
                 ELSE Usec(t.days, t.secs, 0)
    IN [days |-> whole.days, secs |-> whole.secs,
        bits |-> IF up THEN inc.bits ELSE bits]

BitAt(bits, i) == IF i <= Len(bits) THEN bits[i] ELSE 0

\* Bits 8c-7 .. 8c of a fraction as a number below 256.
Chunk(bits, c) ==
    128 * BitAt(bits, 8 * c - 7) + 64 * BitAt(bits, 8 * c - 6)
    + 32 * BitAt(bits, 8 * c - 5) + 16 * BitAt(bits, 8 * c - 4)
    + 8 * BitAt(bits, 8 * c - 3) + 4 * BitAt(bits, 8 * c - 2)
    + 2 * BitAt(bits, 8 * c - 1) + BitAt(bits, 8 * c)

\* frac * 1e6 for the binary fraction 0.b1 b2 ..., from the last chunk of
\* eight bits up: T counts quarters (rounded down), sticky says that
\* something was cut off.
RECURSIVE FracTimesMillion(_, _, _, _)
FracTimesMillion(bits, c, T, sticky) ==
    IF c = 0 THEN [T |-> T \div 256, sticky |-> sticky \/ T % 256 # 0]
    ELSE FracTimesMillion(bits, c - 1,
                          4 * UsecsInSec * Chunk(bits, c) + (T \div 256),
                          sticky \/ T % 256 # 0)

\* The distance from the first 1 to the last 1 of a fraction.
SigBits(bits) ==
    LET ones == {i \in 1..Len(bits) : bits[i] = 1}
    IN IF ones = {} THEN 0
       ELSE (CHOOSE i \in ones : \A j \in ones : j <= i)
            - (CHOOSE i \in ones : \A j \in ones : i <= j) + 1

\* utcfromtimestamp (line 685) rounds frac * 1e6 half to even.  The product is
\* exact when it fits 53 bits; else the double lies within 1/4 of it, and
\* when the exact product is that near to a half both neighbours may come out.
RoundedUsecs(bits) ==
    LET p == FracTimesMillion(bits, (Len(bits) + 7) \div 8, 0, FALSE)
        q == p.T \div 4
        quarter == p.T % 4
        exact == IF quarter < 2 THEN q
                 ELSE IF quarter = 3 \/ p.sticky THEN q + 1
                 ELSE IF q % 2 = 0 THEN q ELSE q + 1
    IN IF SigBits(bits) + MillionBits > MantissaBits /\ quarter \in {1, 2}
       THEN {q, q + 1}
       ELSE {exact}

HostDate(typ, days, secs, us) == [typ |-> typ, days |-> days, secs |-> secs, us |-> us]

\* to_python, the Date branch (lines 666-689): the host values it may return
\* for a script Date with the hidden properties epoch_usec and dt_type;
\* typ = "ValueError" stands for the exception of utcfromtimestamp.
ToPythonDate(j) ==
    LET x == DivideByMillion(IntToDouble(j.epoch_usec))
        typ == ToPythonString(j.dt_type)
    IN {LET dt == NormUsec(Usec(x.days, x.secs, us))
        IN IF dt.days > MaxDays THEN HostDate("ValueError", 0, 0, 0)
           ELSE IF typ.cps = DtTypeText("date") THEN HostDate("date", dt.days, 0, 0)
           ELSE IF typ.cps = DtTypeText("time") THEN HostDate("time", 0, dt.secs, dt.us)
           ELSE HostDate("datetime", dt.days, dt.secs, dt.us)
        : us \in RoundedUsecs(x.bits)}

\* The values drawn: days counted from 1970-01-01 (2023-06-01 is day 19509,
\* 2^33 seconds fall on day 99420 at 12:56:32, 2^53 microseconds on day 104249
\* at 23:47:34.740992), seconds of the day, microseconds.
DateDays == {0, 1, 6214, 19509, 99420, 99711, 104249, 376200, MaxDays}
DateSecs == {0, 1, 8191, 43200, 46592, 85654, SecsInDay - 1}
DateUsecs == {0, 1, 123456, 500000, 740992, UsecsInSec - 1}

DateVals ==
    {HostDate("datetime", d, s, u) : d \in DateDays, s \in DateSecs, u \in DateUsecs}
    \cup {HostDate("date", d, 0, 0) : d \in DateDays}
    \cup {HostDate("time", 0, s, u) : s \in DateSecs, u \in DateUsecs}

InitDate ==
    /\ RefInit
    /\ dat \in {[phase |-> "input", v |-> v] : v \in DateVals}
    /\ txt = Idle /\ conv = Idle /\ call = Idle
    /\ MoreIdle

\* Context.__setitem__ with a datetime, date or time: to_js -> to_js_date.
DateSetItem ==
    /\ dat.phase = "input"
    /\ dat' = [phase |-> "stored", v |-> dat.v, js |-> ToJsDate(dat.v)]
    /\ UNCHANGED <<refVars, txt, conv, call, moreVars>>

\* Context.__getitem__: to_python takes the Date branch.
DateGetItem ==
    /\ dat.phase = "stored"
    /\ \E out \in ToPythonDate(dat.js) :
          dat' = [phase |-> "decoded", v |-> dat.v, js |-> dat.js, out |-> out]
    /\ UNCHANGED <<refVars, txt, conv, call, moreVars>>

NextDate ==
    \/ DateSetItem
    \/ DateGetItem

SpecDate == InitDate /\ [][NextDate]_vars

----------------------------------------------------------------------------
(* SpecCall: host calls into script, the trampoline and duk_reraise *)

\* A host object to_js has no encoding for (object(), bytes, ...).
PyOpaque == HV("opaque", 0, <<>>, <<>>, <<>>)

\* The texts str(e), the message of a script error and a script stack trace,
\* as tokens.
PyMessage == HV("message", 0, <<>>, <<>>, <<>>)
PyStackTrace == HV("stacktrace", 0, <<>>, <<>>, <<>>)

\* to_js reaches its last line, raise TypeError (line 948), for an opaque
\* value at any depth.
RECURSIVE CanEncode(_)
CanEncode(v) ==
    IF v.k = "opaque" THEN FALSE
    ELSE IF v.k = "list" THEN \A i \in 1..Len(v.items) : CanEncode(v.items[i])
    ELSE IF v.k = "dict" THEN \A i \in 1..Len(v.pairs) : CanEncode(v.pairs[i].val)
    ELSE TRUE

\* On the value stack: a property value, and an array or object that
\* to_js_array / to_js_dict has pushed and is still filling.
PropVal == [t |-> "value", v |-> 0]
Partial == [t |-> "partial", v |-> 0]

Min(set) == CHOOSE x \in set : \A y \in set : x <= y

\* The host values a list or dict hands to to_js one after the other.
Members(v) ==
    IF v.k = "list" THEN v.items ELSE [i \in 1..Len(v.pairs) |-> v.pairs[i].val]

\* to_js (lines 891-948) seen from the value stack: whether it returned, and
\* the values it has pushed.  to_js_array (lines 780-786) and to_js_dict
\* (lines 789-795) push the container first and raise out of the loop, the
\* container still on the stack, when to_js of a member raises.
RECURSIVE ToJsPushed(_)
ToJsPushed(v) ==
    IF v.k = "opaque" THEN [ok |-> FALSE, stk |-> <<>>]
    ELSE IF v.k \in {"list", "dict"} /\ ~CanEncode(v)
    THEN [ok |-> FALSE,
          stk |-> <<Partial>> \o
                  ToJsPushed(Members(v)[Min({i \in 1..Len(Members(v)) :
                                                ~CanEncode(Members(v)[i])})]).stk]
    ELSE [ok |-> TRUE, stk |-> <<PropVal>>]

\* The arguments of a call handed to to_js one after the other (lines
\* 578-579, 978-979): the values pushed, and whether every to_js returned.
ArgsPushed(args) ==
    IF \A i \in 1..Len(args) : CanEncode(args[i])
    THEN [ok |-> TRUE, stk |-> [i \in 1..Len(args) |-> PropVal]]
    ELSE [ok |-> FALSE,
          stk |-> [i \in 1..(Min({j \in 1..Len(args) : ~CanEncode(args[j])}) - 1) |-> PropVal]
                  \o ToJsPushed(args[Min({j \in 1..Len(args) : ~CanEncode(args[j])})]).stk]

\* A host exception class: the module and name that type(e).__module__ and
\* type(e).__name__ give, its base (Exception; Error, the class of line 23;
\* or BaseException only), whether the module has the class as an attribute
\* of that name, and the arguments its constructor takes.
ExcClass(module, name, base, attr, ctor) ==
    [module |-> module, name |-> name, base |-> base, attr |-> attr, ctor |-> ctor]

ExcClasses ==
    {ExcClass(<<"builtins">>, "ValueError", "Exception", TRUE, "any"),
     ExcClass(<<"app">>, "AppError", "Exception", TRUE, "any"),
     \* a class made inside a function of module app
     ExcClass(<<"app">>, "LocalError", "Exception", FALSE, "any"),
     ExcClass(<<"duktape">>, "Error", "Error", TRUE, "any"),
     \* __init__(self, msg, doc, pos), args = (errmsg,)
     ExcClass(<<"json", "decoder">>, "JSONDecodeError", "Exception", TRUE, "three"),
     ExcClass(<<"builtins">>, "KeyboardInterrupt", "BaseException", TRUE, "any")}

ClsId(c) == c.module \o <<c.name>>
Builtin(name) == <<"builtins", name>>
DukErrorCls == <<"duktape", "Error">>

\* Exception, Error or BaseException: what isinstance tells of an instance.
BaseOf(cls) ==
    IF \E c \in ExcClasses : ClsId(c) = cls
    THEN (CHOOSE c \in ExcClasses : ClsId(c) = cls).base
    ELSE "Exception"

\* A host exception object: its class, args, __cause__ (<<>> for None) and
\* whether it is the very object the host closure raised.
Exc(cls, args, cause, orig) ==
    [cls |-> cls, args |-> args, cause |-> cause, orig |-> orig]

NoExc == Exc(<<>>, <<>>, <<>>, FALSE)

\* to_js, lines 939-945: the name carried by a PythonError, without the
\* module for a builtin.
ExcNameOf(cls) == IF Len(cls) = 2 /\ cls[1] = "builtins" THEN <<cls[2]>> ELSE cls

\* A thrown script value: a PythonError or a generic Error object, with the
\* hidden python_error pointer (<<>> when absent).
Thrown(t, exc_name, message, args, python_error) ==
    [t |-> t, exc_name |-> exc_name, message |-> message, args |-> args,
     python_error |-> python_error]

NoThrown == Thrown("none", <<>>, PyNone, JsNull, <<>>)

JsUndefined == JV("undefined", 0, <<>>, <<>>, <<>>)

\* duk_throw_python_error (lines 141-151): to_js(python_error) makes
\* new PythonError(exc_name, str(e), e.args); a TypeError of to_js makes a
\* generic error object instead; the pointer is attached and the value thrown.
DukThrowPythonError(e) ==
    IF \A i \in 1..Len(e.args) : CanEncode(e.args[i])
    THEN Thrown("PythonError", ExcNameOf(e.cls), PyMessage, JsArr(ToJsArray(e.args)), <<e>>)
    ELSE Thrown("Error", <<>>, PyMessage, JsNull, <<e>>)

\* What a host closure does when called: return a value or raise.
Closure(does, val, exc) == [does |-> does, val |-> val, exc |-> exc]

TrampResult(kind, val, thrown) == [kind |-> kind, val |-> val, thrown |-> thrown]

NoTramp == TrampResult("none", JsNull, NoThrown)

\* js_func_wrapper (lines 724-753).  "except Exception" catches the closure's
\* exception and the TypeError of to_js for its return value; an exception
\* that is not an Exception leaves the cdef function, which has no except
\* clause: it is reported as unraisable and the function returns 0, so the
\* script gets undefined.
JsFuncWrapper(f) ==
    IF f.does = "raise"
    THEN IF BaseOf(f.exc.cls) = "BaseException"
         THEN TrampResult("return", JsUndefined, NoThrown)
         ELSE TrampResult("throw", JsNull, DukThrowPythonError(f.exc))
    ELSE IF CanEncode(f.val)
         THEN TrampResult("return", ToJs(f.val), NoThrown)
         ELSE TrampResult("throw", JsNull,
                  DukThrowPythonError(Exc(Builtin("TypeError"), <<PyMessage>>, <<>>, FALSE)))

\* The script run by a host call: it calls the host closure f, inside
\* try/catch or not; or throws new Error(...); or throws
\* new PythonError(name, ..., []); or gives a value.
Script(body, catch, f, name, val) ==
    [body |-> body, catch |-> catch, f |-> f, name |-> name, val |-> val]

CaughtText == <<99, 97, 117, 103, 104, 116>>
ReturnedText == <<114, 101, 116, 117, 114, 110, 101, 100>>

\* duk_pcall / duk_pnew of the script: rc, the value or the thrown value left
\* on the stack, and what the trampoline did when it ran.
Ran(rc, val, thrown, tramp) == [rc |-> rc, val |-> val, thrown |-> thrown, tramp |-> tramp]

RunScript(s) ==
    IF s.body = "call"
    THEN LET t == JsFuncWrapper(s.f)
         IN IF s.catch
            THEN Ran(0, PushString(IF t.kind = "throw" THEN CaughtText ELSE ReturnedText),
                     NoThrown, t)
            ELSE IF t.kind = "throw" THEN Ran(1, JsNull, t.thrown, t)
            ELSE Ran(0, t.val, NoThrown, t)
    ELSE IF s.body = "throwError"
    THEN Ran(1, JsNull, Thrown("Error", <<>>, PyMessage, JsNull, <<>>), NoTramp)
    ELSE IF s.body = "throwPythonError"
    THEN Ran(1, JsNull, Thrown("PythonError", s.name, PyMessage, JsArr(<<>>), <<>>), NoTramp)
    ELSE Ran(0, s.val, NoThrown, NoTramp)

\* exc_name.rsplit('.', 1), with 'builtins' for a name without a dot
\* (lines 661-664).
RSplit(n) ==
    IF Len(n) = 1 THEN [module |-> <<"builtins">>, name |-> n[1]]
    ELSE [module |-> SubSeq(n, 1, Len(n) - 1), name |-> n[Len(n)]]

\* getattr(importlib.import_module(module), exc_name) (line 665): the class,
\* or the exception of the lookup.
Lookup(module, name) ==
    IF \A c \in ExcClasses : c.module # module THEN [err |-> "ModuleNotFoundError"]
    ELSE IF \E c \in ExcClasses : c.module = module /\ c.name = name /\ c.attr
    THEN [err |-> "",
          cls |-> CHOOSE c \in ExcClasses : c.module = module /\ c.name = name /\ c.attr]
    ELSE [err |-> "AttributeError"]

Decoded(ok, exc) == [ok |-> ok, exc |-> exc]

\* Lines 660-665 with the decoded args: the class is looked up by name and
\* called with *args; a failure of to_python(args), of the lookup or of the
\* constructor is the exception raised instead (ok = FALSE).
MakeException(exc_name, args) ==
    LET sp == RSplit(exc_name)
        lk == Lookup(sp.module, sp.name)
    IN IF args.k = "raise"
       THEN Decoded(FALSE, Exc(Builtin("UnicodeDecodeError"), <<>>, <<>>, FALSE))
       ELSE IF lk.err # ""
       THEN Decoded(FALSE, Exc(Builtin(lk.err), <<PyMessage>>, <<>>, FALSE))
       ELSE IF lk.cls.ctor = "three" /\ Len(args.items) # 3
       THEN Decoded(FALSE, Exc(Builtin("TypeError"), <<PyMessage>>, <<>>, FALSE))
       ELSE Decoded(TRUE, Exc(ClsId(lk.cls), args.items, <<>>, FALSE))

\* to_python of a thrown object (lines 654-665 and 696-700): the host
\* exception made from it, or (ok = FALSE) the exception to_python itself
\* raises.
ToPythonThrown(th) ==
    IF th.t = "PythonError"
    THEN MakeException(th.exc_name, ToPython(th.args))
    ELSE Decoded(TRUE, Exc(DukErrorCls, <<PyMessage>>, <<>>, FALSE))

\* duk_reraise (lines 120-138) with rc # 0 and the thrown value on top: the
\* exception raised and whether line 131 popped the thrown value.
RaiseDecoded(th, d) ==
    LET duk_error == Exc(DukErrorCls, <<PyStackTrace>>, th.python_error, FALSE)
    IN IF ~d.ok THEN [exc |-> d.exc, popped |-> FALSE]
       ELSE IF BaseOf(d.exc.cls) = "Exception"
       THEN [exc |-> [d.exc EXCEPT !.cause = <<duk_error>>], popped |-> TRUE]
       ELSE [exc |-> duk_error, popped |-> TRUE]

DukReraise(th) == RaiseDecoded(th, ToPythonThrown(th))

Outcome(kind, val, exc) == [kind |-> kind, val |-> val, exc |-> exc]

\* What the host caller gets from ret = to_python(...) of a returned value.
ReturnedValue(v) ==
    IF v.k = "raise"
    THEN Outcome("raise", PyNone, Exc(Builtin("UnicodeDecodeError"), <<>>, <<>>, FALSE))
    ELSE Outcome("return", v, NoExc)

Returned(j) == ReturnedValue(ToPython(j))

\* The args drawn: (), (1, "a"), ("m",) and (object(),).
ExcArgs ==
    {<<>>, <<PyInt(1), PyStr(<<97>>)>>, <<PyStr(<<109>>)>>, <<PyOpaque>>}

Closures ==
    {Closure("return", v, NoExc) : v \in {PyInt(1), PyOpaque}}
    \cup {Closure("raise", PyNone, Exc(ClsId(c), a, <<>>, TRUE)) :
             c \in {k \in ExcClasses : k.ctor = "any"}, a \in ExcArgs}
    \cup {Closure("raise", PyNone, Exc(ClsId(c), <<PyStr(<<109>>)>>, <<>>, TRUE)) :
             c \in {k \in ExcClasses : k.ctor = "three"}}

NoClosure == Closure("none", PyNone, NoExc)

ThrownNames == {<<"ValueError">>, <<"nomodule", "Nope">>, <<"KeyboardInterrupt">>}

\* What the value scripts evaluate to: true, false, NaN, null, undefined,
\* 1+1, 0, -1, 1.5, -1.5, Infinity and "a".
ScriptValues ==
    {JsBool(1), JsBool(0), JsNan, JsNull, JsUndefined, JsNum(4), JsNum(0), JsNum(0 - 2),
     JsNum(3), JsNum(0 - 3), JsInf, JsStr(<<97>>)}

Scripts ==
    {Script("call", c, f, <<>>, JsNull) : c \in BOOLEAN, f \in Closures}
    \cup {Script("throwError", FALSE, NoClosure, <<>>, JsNull)}
    \cup {Script("throwPythonError", FALSE, NoClosure, n, JsNull) : n \in ThrownNames}
    \cup {Script("value", FALSE, NoClosure, <<>>, v) : v \in ScriptValues}

CallDone(op, args, s, r, out, d0, d1) ==
    [phase |-> "done", op |-> op, args |-> args, script |-> s, rc |-> r.rc, thrown |-> r.thrown,
     tramp |-> r.tramp, outcome |-> out, d0 |-> d0, d1 |-> d1]

\* A context whose stack holds the values earlier calls have left on it
\* (Context.eval leaves its result there), and no call made yet.
InitCall ==
    /\ objs = <<>>
    /\ globals = [k \in Keys |-> Undef]
    /\ stack \in {[j \in 1..n |-> StashVal] : n \in 0..MaxStack}
    /\ refMap = <<>>
    /\ refCount = <<>>
    /\ proxies = [k \in Slots |-> NoProxy]
    /\ fatal = FALSE
    /\ last = NoResult
    /\ call = Idle
    /\ txt = Idle /\ conv = Idle /\ dat = Idle
    /\ MoreIdle

\* The stack and the caller's outcome after duk_reraise(pyctx, rc) with the
\* result of the protected call on top of stk.
\* decode tells whether the caller returns to_python of the result (eval,
\* JsFunc.__call__) or None.
AfterCall(op, args, s, r, stk, keep, decode) ==
    IF r.rc # 0
    THEN \E e \in {DukReraise(r.thrown)} :
            /\ stack' = IF e.popped THEN stk ELSE Append(stk, r.thrown)
            /\ call' = CallDone(op, args, s, r, Outcome("raise", PyNone, e.exc),
                                Len(stack), Len(stack'))
    ELSE /\ stack' = IF keep THEN Append(stk, r.val) ELSE stk
         /\ call' = CallDone(op, args, s, r,
                         IF decode THEN Returned(r.val)
                         ELSE Outcome("return", PyNone, NoExc),
                         Len(stack), Len(stack'))

\* Context.eval (lines 1229-1239): source and filename are pushed,
\* duk_pcompile replaces them by the function, duk_pcall replaces that by the
\* result, which to_python(self, -1) decodes where it lies.
Eval(s) ==
    /\ ~fatal
    /\ call.phase = "idle"
    /\ LET stk == PopN(Push(PopN(Push(Push(stack, StashVal), StashVal), 2), StashVal), 1)
       IN AfterCall("eval", <<>>, s, RunScript(s), stk, TRUE, TRUE)
    /\ UNCHANGED <<objs, globals, refMap, refCount, proxies, fatal, last, txt, conv, dat,
                 moreVars>>

\* Context.load (lines 1191-1226): the file name is put in the global stash
\* and the stash popped (lines 1207-1211); source and filename are pushed and
\* duk_pcompile replaces them by the function; the global object is pushed
\* and duk_pcall_method replaces both by the result, which is popped (line
\* 1222).  The finally block pushes and pops the stash.
Load(s) ==
    /\ ~fatal
    /\ call.phase = "idle"
    /\ LET s0 == PopN(PopN(Push(Push(stack, StashVal), StashVal), 1), 1)
           s1 == Push(PopN(Push(Push(s0, StashVal), StashVal), 2), StashVal)
           stk == PopN(Push(s1, StashVal), 2)
       IN AfterCall("load", <<>>, s, RunScript(s), stk, FALSE, FALSE)
    /\ UNCHANGED <<objs, globals, refMap, refCount, proxies, fatal, last, txt, conv, dat,
                 moreVars>>

\* The arguments given to a function proxy: (), (1,), (1, object()) and
\* ([object()],).
CallArgs ==
    {<<>>, <<PyInt(1)>>, <<PyInt(1), PyOpaque>>, <<PyList(<<PyOpaque>>)>>}

\* The script function was not entered.
NotRun == Ran(0, JsUndefined, NoThrown, NoTramp)

\* JsFunc.__call__ (lines 576-584) on a proxy of a script function with body
\* s: the function is pushed, then each argument by to_js; duk_pcall replaces
\* function and arguments by the result, to_python decodes it and
\* pop_proxy_ref pops it.  A TypeError of to_js leaves __call__ at line 579.
CallFunc(s, args) ==
    /\ ~fatal
    /\ call.phase = "idle"
    /\ \E a \in {ArgsPushed(args)} :
          IF a.ok
          THEN AfterCall("call", args, s, RunScript(s),
                         PopN(Push(stack, StashVal) \o a.stk, Len(args) + 1), FALSE, TRUE)
          ELSE /\ stack' = Push(stack, StashVal) \o a.stk
               /\ call' = CallDone("call", args, s, NotRun,
                               Outcome("raise", PyNone,
                                       Exc(Builtin("TypeError"), <<PyMessage>>, <<>>, FALSE)),
                               Len(stack), Len(stack'))
    /\ UNCHANGED <<objs, globals, refMap, refCount, proxies, fatal, last, txt, conv, dat,
                 moreVars>>

\* Context._push(JsNew(name)) (lines 1249-1250, 976-980): the constructor is
\* pushed and duk_pnew replaces it by the new object, which stays on the stack.
New(s) ==
    /\ ~fatal
    /\ call.phase = "idle"
    /\ LET stk == PopN(Push(stack, StashVal), 1)
       IN AfterCall("new", <<>>, s, RunScript(s), stk, TRUE, FALSE)
    /\ UNCHANGED <<objs, globals, refMap, refCount, proxies, fatal, last, txt, conv, dat,
                 moreVars>>

NextCall ==
    \/ \E s \in Scripts : Eval(s)
    \/ \E s \in Scripts : Load(s)
    \/ \E s \in Scripts, args \in CallArgs : CallFunc(s, args)
    \/ \E s \in Scripts : New(s)

SpecCall == InitCall /\ [][NextCall]_vars

----------------------------------------------------------------------------
(* SpecObject: ObjectProxy.getitem / setitem / delitem on one live proxy *)

ObjKeys == {"a", "b"}

\* A property the proxied object inherits from its prototype, as the object
\* made by Object.create({c: 1}) inherits c (and every object toString).
ProtoKeys == {"c"}
PropKeys == ObjKeys \cup ProtoKeys

\* duk_get_prop_string and duk_has_prop_string look the key up on the object
\* and then along its prototype chain.
HasProp(own, key) == key \in own \cup ProtoKeys

\* The proxied script object and the id its proxy holds.
ObjAddr == CHOOSE a \in Addrs : \A b \in Addrs : a <= b
ObjId == RefIdOf(ObjAddr)

\* The outcome of an object-proxy operation, with the stack depth before and
\* after it.
ObjDone(op, key, value, outcome, keys, before, d0, d1) ==
    [phase |-> "done", op |-> op, key |-> key, value |-> value, outcome |-> outcome,
     keys |-> keys, before |-> before, d0 |-> d0, d1 |-> d1]

\* The values given to setitem: 1, "a", [1], object(), [1, object()],
\* {"a": [object()]} and [[1, object()]].
ObjValues ==
    {PyInt(1), PyStr(<<97>>), PyList(<<PyInt(1)>>), PyOpaque,
     PyList(<<PyInt(1), PyOpaque>>),
     PyDict(<<[key |-> <<97>>, val |-> PyList(<<PyOpaque>>)]>>),
     PyList(<<PyList(<<PyInt(1), PyOpaque>>)>>)}

\* A context with one script object made by Object.create({c: 1}), a JsDict
\* proxy of it (Context.proxy) in the reference table, and on the stack what
\* earlier calls have left there.
InitObject ==
    /\ objs = TablePut(<<>>, ObjAddr, [kind |-> "other", elems |-> <<>>])
    /\ globals = [k \in Keys |-> Ref(ObjAddr)]
    /\ stack \in {[j \in 1..n |-> StashVal] : n \in 0..MaxStack}
    /\ refMap = TablePut(<<>>, ObjId, Ref(ObjAddr))
    /\ refCount = TablePut(<<>>, ObjId, 1)
    /\ proxies = [k \in Slots |->
                     IF k = 1 THEN [kind |-> "JsDict", ref |-> ObjId, addr |-> ObjAddr,
                                    stale |-> FALSE]
                     ELSE NoProxy]
    /\ fatal = FALSE
    /\ last = NoResult
    /\ obj \in {[phase |-> "ready", keys |-> ks] : ks \in SUBSET PropKeys}
    /\ txt = Idle /\ conv = Idle /\ dat = Idle /\ call = Idle
    /\ gens = Idle /\ enc = Idle /\ dec = Idle /\ thr = Idle /\ fn = Idle

\* ObjectProxy.getitem (lines 456-465) under push_and_pop_proxy (lines
\* 360-367): the object is pushed, duk_get_prop_string pushes the property
\* (undefined when missing), the inner finally pops it and the wrapper's
\* finally pops the object.
GetItem(key) ==
    /\ Len(stack) <= MaxStack
    /\ \E s1 \in {PushProxyRef(Mach(stack, FALSE), refMap, ObjId).stk} :
          /\ stack' = PopN(PopN(Push(s1, IF HasProp(obj.keys, key) THEN PropVal ELSE Undef), 1), 1)
          /\ obj' = ObjDone("getitem", key, PyNone,
                            IF HasProp(obj.keys, key) THEN "return" ELSE "KeyError",
                            obj.keys, obj.keys, Len(stack), Len(stack'))
    /\ UNCHANGED <<objs, globals, refMap, refCount, proxies, fatal, last,
                   txt, conv, dat, call, gens, enc, dec, thr, fn>>

\* ObjectProxy.setitem (lines 467-470) under push_and_pop_proxy: the object
\* is pushed, to_js(value) pushes the value and duk_put_prop_string pops it
\* into the object; when to_js raises, only the wrapper's finally runs, and it
\* pops one value.
SetItem(key, value) ==
    /\ Len(stack) <= MaxStack
    /\ \E r \in {ToJsPushed(value)} :
       \E s1 \in {PushProxyRef(Mach(stack, FALSE), refMap, ObjId).stk \o r.stk} :
          /\ stack' = IF r.ok THEN PopN(PopN(s1, 1), 1) ELSE PopN(s1, 1)
          /\ obj' = ObjDone("setitem", key, value,
                            IF r.ok THEN "return" ELSE "TypeError",
                            IF r.ok THEN obj.keys \cup {key} ELSE obj.keys,
                            obj.keys, Len(stack), Len(stack'))
    /\ UNCHANGED <<objs, globals, refMap, refCount, proxies, fatal, last,
                   txt, conv, dat, call, gens, enc, dec, thr, fn>>

\* ObjectProxy.delitem (lines 472-476) under push_and_pop_proxy: KeyError
\* when duk_has_prop_string does not find the key; duk_del_prop_string
\* deletes an own property and leaves an inherited one.
DelItem(key) ==
    /\ Len(stack) <= MaxStack
    /\ \E s1 \in {PushProxyRef(Mach(stack, FALSE), refMap, ObjId).stk} :
          /\ stack' = PopN(s1, 1)
          /\ obj' = ObjDone("delitem", key, PyNone,
                            IF HasProp(obj.keys, key) THEN "return" ELSE "KeyError",
                            obj.keys \ {key}, obj.keys, Len(stack), Len(stack'))
    /\ UNCHANGED <<objs, globals, refMap, refCount, proxies, fatal, last,
                   txt, conv, dat, call, gens, enc, dec, thr, fn>>

NextObject ==
    \/ \E k \in PropKeys : GetItem(k)
    \/ \E k \in PropKeys, v \in ObjValues : SetItem(k, v)
    \/ \E k \in PropKeys : DelItem(k)

SpecObject == InitObject /\ [][NextObject]_vars

----------------------------------------------------------------------------
(* SpecKeys: ObjectProxy.keys(), a generator that keeps the object, the    *)
(* enumerator and the current key on the value stack while it is suspended *)

MaxGens == 2        \* keys() iterations the host holds at the same time
MaxStarts == 3      \* keys() calls made in one behaviour

Gens == 1..MaxGens

\* The own-property keys of the two proxied objects, in enumeration order.
KeysOf(o) == IF o = ObjAddr THEN <<"a", "b">> ELSE <<"c", "d">>

\* duk_enum pushes an enumerator over the object at the given index; it holds
\* the object's keys and how many of them duk_next has handed out.
Enum(o, pos) == [t |-> "enum", v |-> <<o, pos>>]
KeyVal(k) == [t |-> "key", v |-> k]

NoGen == [pc |-> "none", o |-> 0, out |-> <<>>, alone |-> FALSE]

InProgress(g) == g.pc \in {"new", "yielded"}

\* A context with plain script objects at every address, a JsDict proxy of
\* each, and no keys() iteration yet.
InitKeys ==
    /\ objs = [a \in Addrs |-> [kind |-> "plain", elems |-> <<>>]]
    /\ globals = [k \in Keys |-> Ref(ObjAddr)]
    /\ stack \in {[j \in 1..n |-> StashVal] : n \in 0..MaxStack}
    /\ refMap = [id \in {RefIdOf(a) : a \in Addrs} |-> Ref(id[2])]
    /\ refCount = [id \in {RefIdOf(a) : a \in Addrs} |-> 1]
    /\ proxies = [k \in Slots |-> NoProxy]
    /\ fatal = FALSE
    /\ last = NoResult
    /\ gens = [phase |-> "run", base |-> Len(stack), started |-> 0,
               g |-> [i \in Gens |-> NoGen]]
    /\ txt = Idle /\ conv = Idle /\ dat = Idle /\ call = Idle
    /\ obj = Idle /\ enc = Idle /\ dec = Idle /\ thr = Idle /\ fn = Idle

\* proxy.keys() (line 478): the generator object is made; its body has not
\* run.  A generator that was running alone is no longer alone.
KeysStart(i, o) ==
    /\ ~fatal
    /\ RefIdOf(o) \in DOMAIN refCount
    /\ ~InProgress(gens.g[i])
    /\ gens.started < MaxStarts
    /\ gens' = [gens EXCEPT !.started = @ + 1, !.g = [j \in Gens |->
                   IF j = i
                   THEN [pc |-> "new", o |-> o, out |-> <<>>,
                         alone |-> \A n \in Gens : ~InProgress(gens.g[n])]
                   ELSE [gens.g[j] EXCEPT !.alone = @ /\ ~InProgress(gens.g[j])]]]
    /\ UNCHANGED <<refVars, txt, conv, dat, call, obj, enc, dec, thr, fn>>

\* The stack when the generator reaches duk_next (line 481): on the first
\* next() the object and a new enumerator have been pushed (lines 479-480); on
\* a later one the generator resumes after the yield and pops (line 483).
BeforeNext(g) ==
    IF g.pc = "new"
    THEN Push(PushProxyRef(Mach(stack, FALSE), refMap, RefIdOf(g.o)).stk, Enum(g.o, 0))
    ELSE PopN(stack, 1)

\* next() on the generator (lines 479-485).  duk_next(ctx, -1, 0) advances
\* whatever enumerator is on top of the stack: with a key left it pushes the
\* key, which is decoded and yielded; without, the loop ends and two values
\* are popped.  A top that is no object is an engine error.
KeysNext(i) ==
    /\ ~fatal
    /\ InProgress(gens.g[i])
    /\ \E s0 \in {BeforeNext(gens.g[i])} :
          IF Len(s0) = 0 \/ Top(s0).t # "enum"
          THEN /\ fatal' = TRUE
               /\ stack' = s0
               /\ gens' = [gens EXCEPT !.g[i].pc = "closed"]
          ELSE \E e \in {Top(s0).v} :
                  /\ fatal' = FALSE
                  /\ IF e[2] < Len(KeysOf(e[1]))
                     THEN /\ stack' = PopN(s0, 1) \o
                                      <<Enum(e[1], e[2] + 1), KeyVal(KeysOf(e[1])[e[2] + 1])>>
                          /\ gens' = [gens EXCEPT !.g[i].pc = "yielded",
                                                  !.g[i].out = Append(@, KeysOf(e[1])[e[2] + 1])]
                     ELSE /\ stack' = PopN(s0, 2)
                          /\ gens' = [gens EXCEPT !.g[i].pc = "done"]
    /\ UNCHANGED <<objs, globals, refMap, refCount, proxies, last,
                   txt, conv, dat, call, obj, enc, dec, thr, fn>>

\* The consumer closes or drops the generator before it is exhausted:
\* GeneratorExit is raised at the yield (line 482), and no line of keys()
\* pops anything on that path.
KeysClose(i) ==
    /\ ~fatal
    /\ InProgress(gens.g[i])
    /\ gens' = [gens EXCEPT !.g[i].pc = "closed"]
    /\ UNCHANGED <<refVars, txt, conv, dat, call, obj, enc, dec, thr, fn>>

NextKeys ==
    \/ \E i \in Gens, o \in Addrs : KeysStart(i, o)
    \/ \E i \in Gens : KeysNext(i)
    \/ \E i \in Gens : KeysClose(i)

SpecKeys == InitKeys /\ [][NextKeys]_vars

----------------------------------------------------------------------------
(* SpecEncode: to_js on the value stacks of two execution contexts of one  *)
(* engine: the root Context and a ThreadContext made by new_thread(False), *)
(* which share the heap and the global stash but have a stack each         *)

Ctxs == {"root", "thread"}

\* The kinds of host value to_js has a branch for, in the order of its
\* branches (lines 894-946), and a value it has none for.
PlainKinds ==
    {"none", "str", "bool", "int", "float", "list", "dict", "datetime", "date", "time",
     "JsType", "JsNew", "callable", "PyFunc", "exception", "opaque"}

\* A host value: its kind and, for a proxy, the context it was obtained
\* through (JsProxy.pyctx, line 377) and the address of its script object.
EV(k, owner, addr) == [k |-> k, owner |-> owner, addr |-> addr]

\* The proxies to_python_proxy makes for a script object (lines 301-307), and
\* JsDict.asobject() of a JsDict (line 451).
ProxiesOfObject(os, addr) ==
    LET kind == ProxyKind(os, Ref(addr), FALSE)
    IN {EV(k, c, addr) : k \in (IF kind = "JsDict" THEN {"JsDict", "JsObject"} ELSE {kind}),
                         c \in Ctxs}

EncVals(os) == {EV(k, "none", 0) : k \in PlainKinds} \cup ProxiesOfObject(os, ObjAddr)

\* A script value that to_js makes: a primitive or a new object.
Made(what) == [t |-> "made", v |-> what]

\* to_js (lines 891-948): the script value it leaves on a stack.  A JsFunc is
\* callable, so the branch of line 923 takes it before the proxy branch of
\* line 929 is tried, and to_js_func makes a new script function around the
\* proxy; JsArray, JsDict and JsObject take line 930 and the value under
\* their ref_id in _ref_map is pushed.
ToJsValue(v, rm) ==
    IF v.k \in {"JsArray", "JsDict", "JsObject"} THEN Resolve(rm, RefIdOf(v.addr))
    ELSE IF v.k \in {"JsFunc", "callable", "PyFunc"} THEN Made("js_func_wrapper")
    ELSE Made(v.k)

\* The context whose stack to_js(pyctx, v) pushes on: push_proxy_ref (lines
\* 380-385) works on self.pyctx.ctx, the proxy's own context; every other
\* branch works on pyctx.ctx.
ToJsStackOf(pyctx, v) ==
    IF v.k \in {"JsArray", "JsDict", "JsObject"} THEN v.owner ELSE pyctx

Depths(root, thread) == [root |-> Len(root), thread |-> Len(thread)]

InitEncode ==
    /\ \E kind \in {"function", "array", "plain"} :
          objs = TablePut(<<>>, ObjAddr, [kind |-> kind, elems |-> <<>>])
    /\ globals = [k \in Keys |-> Ref(ObjAddr)]
    /\ stack \in {[j \in 1..n |-> StashVal] : n \in 0..MaxStack}
    /\ refMap = TablePut(<<>>, ObjId, Ref(ObjAddr))
    /\ refCount = TablePut(<<>>, ObjId, 1)
    /\ proxies = [k \in Slots |-> NoProxy]
    /\ fatal = FALSE
    /\ last = NoResult
    /\ enc \in {[phase |-> "ready", thread |-> s] :
                   s \in {[j \in 1..n |-> StashVal] : n \in 0..MaxStack}}
    /\ txt = Idle /\ conv = Idle /\ dat = Idle /\ call = Idle
    /\ obj = Idle /\ gens = Idle /\ dec = Idle /\ thr = Idle /\ fn = Idle

\* Context._push(value) (lines 1249-1250) on context pyctx: to_js(pyctx, value).
Encode(pyctx, v) ==
    /\ enc.phase = "ready"
    /\ v \in EncVals(objs)
    /\ \E to \in {IF v.k = "opaque" THEN "none" ELSE ToJsStackOf(pyctx, v)} :
          /\ stack' = IF to = "root" THEN Push(stack, ToJsValue(v, refMap)) ELSE stack
          /\ enc' = [phase |-> "done", pyctx |-> pyctx, v |-> v,
                     outcome |-> IF v.k = "opaque" THEN "TypeError" ELSE "return",
                     thread |-> IF to = "thread" THEN Push(enc.thread, ToJsValue(v, refMap))
                                ELSE enc.thread,
                     before |-> Depths(stack, enc.thread)]
    /\ UNCHANGED <<objs, globals, refMap, refCount, proxies, fatal, last,
                   txt, conv, dat, call, obj, gens, dec, thr, fn>>

NextEncode ==
    \E pyctx \in Ctxs, k \in PlainKinds \cup {"JsFunc", "JsArray", "JsDict", "JsObject"},
       owner \in Ctxs \cup {"none"}, addr \in {0, ObjAddr} :
        Encode(pyctx, EV(k, owner, addr))

SpecEncode == InitEncode /\ [][NextEncode]_vars

----------------------------------------------------------------------------
(* SpecDecode: to_python on a script value at the top of the value stack   *)
(* (Context.eval, Context._get) and on the arguments of a host callable,   *)
(* which js_func_wrapper decodes at the absolute indices 0..nargs-1        *)

\* A script value: its type or class, a number n that tells two values of one
\* class apart, whether to_js_date has tagged it with epoch_usec and dt_type,
\* and the values of its elements or own enumerable properties.
SV(t, n, tagged, elems) == [t |-> t, v |-> [n |-> n, tagged |-> tagged, elems |-> elems]]

Primitives == {"boolean", "nan", "null", "undefined", "number", "string"}

\* What to_python makes of a value: the host type and the script value it
\* was made from.
Host(k, n, items) == [k |-> k, of |-> n, items |-> items]
NoHost == Host("none", 0, <<>>)

\* A step of to_python: how it left ("return", a host exception, or
\* "engine_error" for an error thrown by the engine inside an API call), the
\* host value, and the value stack.
Step(outcome, res, stk) == [outcome |-> outcome, res |-> res, stk |-> stk]

\* The value at stack index idx: from the top when negative, from the bottom
\* of the current activation otherwise.
At(stk, idx) == IF idx < 0 THEN stk[Len(stk) + 1 + idx] ELSE stk[idx + 1]

\* duk_get_prop_string(ctx, idx, name) for the properties to_python reads:
\* the value it pushes, or an engine error when the base is null or
\* undefined.  A property the base does not have reads as undefined.
GetProp(base, name) ==
    IF base.t \in {"null", "undefined"} THEN [err |-> TRUE, val |-> Undef]
    ELSE IF \/ name \in {"exc_name", "args"} /\ base.t = "pyerror"
            \/ name = "message" /\ base.t \in {"pyerror", "error"}
            \/ name \in {"epoch_usec", "dt_type"} /\ base.t = "date" /\ base.v.tagged
    THEN [err |-> FALSE, val |-> [t |-> name, v |-> base.v.n]]
    ELSE [err |-> FALSE, val |-> Undef]

\* The PythonError branch (lines 655-665): exc_name and args are read from
\* the value at index -1, and to_python_string requires a string.
DecodePythonError(stk) ==
    LET p == GetProp(Top(stk), "exc_name")
    IN IF p.err THEN Step("engine_error", NoHost, stk)
       ELSE IF p.val = Undef THEN Step("engine_error", NoHost, Push(stk, p.val))
       ELSE Step("return", Host("exception", p.val.v, <<>>), stk)

\* The Date branch (lines 667-689).  Every index is -1 but the one of
\* duk_get_number (line 675), which is idx, read after getTime's result has
\* been pushed; a value that is no number reads as NaN.  The dt_type that was
\* read is popped only when it is defined (lines 678-682).
DecodeDate(stk, idx) ==
    LET p == GetProp(Top(stk), "epoch_usec")
        called == Push(stk, IF Top(stk).t = "date"
                            THEN [t |-> "number", v |-> Top(stk).v.n]
                            ELSE [t |-> "error", v |-> 0])
        isNan == p.val = Undef /\ At(called, idx).t # "number"
        left == IF GetProp(Top(stk), "dt_type").val # Undef THEN stk ELSE Push(stk, Undef)
    IN IF p.err THEN Step("engine_error", NoHost, stk)
       ELSE IF isNan THEN Step("ValueError", NoHost, left)
       ELSE Step("return", Host("datetime", Top(stk).v.n, <<>>), left)

\* The Error branch (lines 696-700): message is read from the value at -1.
DecodeError(stk) ==
    LET p == GetProp(Top(stk), "message")
    IN IF p.err THEN Step("engine_error", NoHost, stk)
       ELSE IF p.val = Undef THEN Step("engine_error", NoHost, Push(stk, p.val))
       ELSE Step("return", Host("Error", p.val.v, <<>>), stk)

\* to_python (lines 634-707).  to_python_list (lines 274-281) and
\* to_python_dict (lines 284-292) push every member and decode it at -1;
\* ToPyHelper (lines 594-607) reads constructor.name, an engine error for an
\* object without a prototype.  An object that is no plain object, instance
\* of PythonError, Date or Error, or function is returned as the dict made of
\* its own properties (line 704).
RECURSIVE ToPythonAt(_, _), Flatten(_, _, _)
Flatten(stk, elems, done) ==
    IF elems = <<>> THEN Step("return", done, stk)
    ELSE \* push the member, decode it at the top, pop it
         LET s == ToPythonAt(Push(stk, Head(elems)), -1)
         IN IF s.outcome # "return" THEN s
            ELSE Flatten(PopN(s.stk, 1), Tail(elems), Append(done, s.res))

ToPythonAt(stk, idx) ==
    LET val == At(stk, idx)
        dct == Flatten(stk, val.v.elems, <<>>)
    IN IF val.t \in Primitives
       THEN Step("return", Host(IF val.t \in {"null", "undefined"} THEN "None" ELSE val.t,
                                val.v.n, <<>>), stk)
       ELSE IF val.t = "array"
       THEN IF dct.outcome = "return"
            THEN Step("return", Host("list", val.v.n, dct.res), dct.stk) ELSE dct
       ELSE IF val.t = "bare" THEN Step("engine_error", NoHost, stk)
       ELSE IF dct.outcome # "return" THEN dct
       ELSE IF val.t = "plain" THEN Step("return", Host("dict", val.v.n, dct.res), dct.stk)
       ELSE IF val.t = "pyerror" THEN DecodePythonError(dct.stk)
       ELSE IF val.t = "date" THEN DecodeDate(dct.stk, idx)
       ELSE IF val.t = "error" THEN DecodeError(dct.stk)
       ELSE IF val.t = "function" THEN Step("return", Host("JsFunc", val.v.n, <<>>), dct.stk)
       ELSE Step("return", Host("dict", val.v.n, dct.res), dct.stk)

\* The script values handed to to_python: every primitive, an array, a plain
\* object, Object.create(null), a Date made by to_js_date and one made by
\* script, PythonErrors, Errors, a function, an instance of a script
\* constructor, and containers of a Date and of a number.
Leafs ==
    {SV(t, 1, FALSE, <<>>) : t \in Primitives \cup {"array", "plain", "bare", "function", "other"}}
    \cup {SV("date", 1, tg, <<>>) : tg \in BOOLEAN}
    \cup {SV(t, n, FALSE, <<>>) : t \in {"pyerror", "error"}, n \in {1, 2}}

DecVals ==
    Leafs \cup {SV(t, 1, FALSE, <<e>>) :
                   t \in {"array", "plain", "other"},
                   e \in {SV("date", 1, FALSE, <<>>), SV("number", 1, FALSE, <<>>)}}

InitDecode ==
    /\ objs = [a \in Addrs |-> [kind |-> "plain", elems |-> <<>>]]
    /\ globals = [k \in Keys |-> Undef]
    /\ stack \in {[j \in 1..n |-> StashVal] : n \in 0..MaxStack}
    /\ refMap = <<>>
    /\ refCount = <<>>
    /\ proxies = [k \in Slots |-> NoProxy]
    /\ fatal = FALSE
    /\ last = NoResult
    /\ dec = [phase |-> "ready"]
    /\ txt = Idle /\ conv = Idle /\ dat = Idle /\ call = Idle
    /\ obj = Idle /\ gens = Idle /\ enc = Idle /\ thr = Idle /\ fn = Idle

DecDone(op, vals, outcome, res, frame, d0, d1) ==
    [phase |-> "done", op |-> op, vals |-> vals, outcome |-> outcome, res |-> res,
     frame |-> frame, d0 |-> d0, d1 |-> d1]

\* Context._get() (line 1247) with the value on top of the stack, as
\* Context.eval leaves it (line 1239): to_python(self, -1).  No protected
\* call is active, so an engine error reaches the fatal handler.
DecodeTop(val) ==
    /\ ~fatal
    /\ dec.phase = "ready"
    /\ \E s \in {ToPythonAt(Push(stack, val), -1)} :
          /\ stack' = s.stk
          /\ fatal' = (s.outcome = "engine_error")
          /\ dec' = DecDone("top", <<val>>, s.outcome, <<s.res>>, <<>>,
                            Len(stack) + 1, Len(s.stk))
    /\ UNCHANGED <<objs, globals, refMap, refCount, proxies, last,
                   txt, conv, dat, call, obj, gens, enc, thr, fn>>

\* The list comprehension of js_func_wrapper (line 743): to_python at the
\* indices idx .. nargs-1 of the activation, up to the first that does not
\* return.
RECURSIVE DecodeArgsFrom(_, _, _, _)
DecodeArgsFrom(frame, idx, nargs, done) ==
    IF idx = nargs THEN Step("return", done, frame)
    ELSE LET s == ToPythonAt(frame, idx)
         IN IF s.outcome = "return"
            THEN DecodeArgsFrom(s.stk, idx + 1, nargs, Append(done, s.res))
            ELSE Step(s.outcome, done, s.stk)

\* A host callable called from script with the given arguments: the
\* activation of js_func_wrapper holds them at 0 .. nargs-1 (lines 728-743).
\* A host exception or an engine error ends the call before the callable
\* runs.
DecodeArgs(args) ==
    /\ ~fatal
    /\ dec.phase = "ready"
    /\ \E s \in {DecodeArgsFrom(args, 0, Len(args), <<>>)} :
          dec' = DecDone("args", args, s.outcome, s.res, s.stk, Len(args), Len(s.stk))
    /\ UNCHANGED <<refVars, txt, conv, dat, call, obj, gens, enc, thr, fn>>

NextDecode ==
    \/ \E val \in DecVals : DecodeTop(val)
    \/ \E a \in DecVals : DecodeArgs(<<a>>)
    \/ \E a \in DecVals, b \in Leafs : DecodeArgs(<<a, b>>)

SpecDecode == InitDecode /\ [][NextDecode]_vars

----------------------------------------------------------------------------
(* SpecString: script strings through to_python_string *)

MaxUnits == 3       \* characters in a script string

\* The characters of the script strings drawn, as the bytes the engine holds:
\* U+0000, "a", U+00E9 and U+1F600 (a CESU-8 surrogate pair).
StrUnits == {<<0>>, <<97>>, <<195, 169>>, EncodeCp(128512)}

RECURSIVE Concat(_)
Concat(seqs) == IF seqs = <<>> THEN <<>> ELSE Head(seqs) \o Concat(Tail(seqs))

ScriptStrings ==
    {Concat(us) : us \in UNION {[1..n -> StrUnits] : n \in 0..MaxUnits}}

InitString ==
    /\ RefInit
    /\ txt \in {[phase |-> "script", by |-> b] : b \in ScriptStrings}
    /\ conv = Idle /\ dat = Idle /\ call = Idle
    /\ MoreIdle

\* to_python_string (lines 262-265): duk_require_lstring gives the buffer and
\* its length, unicode_decode_cesu8 makes the UTF-8 bytes and decodes them.
DecodeString ==
    /\ txt.phase = "script"
    /\ txt' = [phase |-> "decoded", by |-> txt.by,
               utf8 |-> Cesu8ToUtf8(txt.by),
               out |-> ToPythonString(txt.by)]
    /\ UNCHANGED <<refVars, conv, dat, call, moreVars>>

NextString == DecodeString

SpecString == InitString /\ [][NextString]_vars

----------------------------------------------------------------------------
(* SpecPut: ArrayProxy.put on arrays of numbers *)

PutInts == {5, 6}

\* duk_put_prop_index on an array without the length test of lines 541-542:
\* the array grows to hold the index.
PutRunExtends(arr, i, item) ==
    [outcome |-> "ok",
     arr |-> [j \in 1..(IF i + 1 > Len(arr) THEN i + 1 ELSE Len(arr)) |->
                 IF j = i + 1 THEN Num(item) ELSE IF j <= Len(arr) THEN arr[j] ELSE Undef]]

\* ArrayProxy.put (lines 539-545) on the elements of the array: IndexError
\* when index >= length, else duk_put_prop_index stores the item at index.
PutRun(arr, i, item) ==
    IF i >= Len(arr) THEN [outcome |-> "IndexError", arr |-> arr]
    ELSE [outcome |-> "ok", arr |-> [arr EXCEPT ![i + 1] = Num(item)]]

\* ArrayProxy.put(index, item) under push_and_pop_proxy (lines 360-367).  A
\* negative index passes the length test and to_js, and fails to convert to
\* duk_uarridx_t at the call of duk_put_prop_index: the wrapper's finally
\* pops the item.
ArrayPut(k, i, item) ==
    /\ UNCHANGED auxVars
    /\ ~fatal
    /\ Len(stack) <= MaxStack
    /\ proxies[k].kind = "JsArray"
    /\ ProxiedArray(k).t = "obj"
    /\ \E o \in {ProxiedArray(k).v} :
       \E mL \in {LengthStack(PushProxyRef(Mach(stack, FALSE), refMap, proxies[k].ref),
                              refMap, proxies[k].ref, Len(objs[o].elems))} :
       \E r \in {IF CanConvertUArrIdx(i) THEN PutRun(objs[o].elems, i, item)
                 ELSE [outcome |-> "OverflowError", arr |-> objs[o].elems]} :
       \E m \in {IF r.outcome = "IndexError" THEN PopProxyRef(mL)
                 ELSE IF r.outcome = "OverflowError" THEN PopProxyRef(DukPush(mL, Num(item)))
                 ELSE PopProxyRef(DukPop(DukPush(mL, Num(item))))} :
          /\ objs' = [objs EXCEPT ![o].elems = r.arr]
          /\ stack' = m.stk
          /\ fatal' = m.fatal
          /\ last' = Result("put", r.outcome, Ref(o), Len(stack), Len(m.stk), i, item,
                            objs[o].elems)
    /\ UNCHANGED <<globals, refMap, refCount, proxies>>

NextPut ==
    \/ \E key \in Keys, hv \in ListVals : SetGlobal(key, hv)
    \/ \E hv \in HostVals : PushValue(hv)
    \/ \E key \in Keys : Proxy(key)
    \/ \E k \in Slots, i \in Indexes, n \in PutInts : ArrayPut(k, i, n)

SpecPut == Init /\ [][NextPut]_vars

----------------------------------------------------------------------------
(* SpecThreads: the root Context of one engine, the ThreadContexts made by *)
(* new_thread, the proxies that refer to them, and the host's handles.     *)
(* Host objects are reference counted: one is deallocated as soon as       *)
(* nothing refers to it.                                                   *)

MaxThreads == 2
MaxReads == 1

Root == 0
ThreadIds == 1..MaxThreads
CtxIds == {Root} \cup ThreadIds

GKeys == {"g"}
GVals == {1, 2}

\* A global environment: the global object, and the global stash that setup
\* fills (lines 1141-1158): _pyctx_pointer as the set of the one context it
\* points to, and the keys of _threads.
NewEnv(c) == [globals |-> [k \in GKeys |-> 0], pyctx |-> {c}, threads |-> {}]
NoEnv == [globals |-> [k \in GKeys |-> 0], pyctx |-> {}, threads |-> {}]

\* A context handle: whether the host object exists, whether host code holds
\* it, whether host code holds a proxy made through it (JsProxy.pyctx, line
\* 377), parent_pyctx (line 1298), self.ctx (0 for NULL), the global
\* environment its engine thread runs in, _pythr_pointer of its thread stash
\* (empty when undefined), and the depth of its value stack.
Handle(live, held, proxy, parent, ctx, env, ptr, depth) ==
    [live |-> live, held |-> held, proxy |-> proxy, parent |-> parent, ctx |-> ctx,
     env |-> env, ptr |-> ptr, depth |-> depth]
NoHandle == Handle(FALSE, FALSE, FALSE, Root, 0, Root, {}, 0)

\* The engine thread of context c, as the address self.ctx holds.
CtxOf(c) == c + 1

World(ctxs, envs, heap, destroyed) ==
    [ctxs |-> ctxs, envs |-> envs, heap |-> heap, destroyed |-> destroyed]

\* Context.__init__ (lines 1117-1123): a heap, the root context, setup().
InitWorld ==
    World([c \in CtxIds |-> IF c = Root
                            THEN Handle(TRUE, TRUE, FALSE, Root, CtxOf(Root), Root, {}, 0)
                            ELSE NoHandle],
          [e \in CtxIds |-> IF e = Root THEN NewEnv(Root) ELSE NoEnv],
          "alive", 0)

\* The global environment new_thread gives the engine thread: that of the
\* parent for duk_push_thread (line 1259), a new one for
\* duk_push_thread_new_globalenv (line 1257).
ThreadEnvOfParent(w, parent, t, new_globalenv) == w.ctxs[parent].env
ThreadEnv(w, parent, t, new_globalenv) ==
    IF new_globalenv THEN t ELSE w.ctxs[parent].env

\* ThreadContext.__init__ (lines 1297-1311): the new global environment is set
\* up with the handle as its _pyctx_pointer (line 1305); otherwise the handle
\* is stored in the thread stash of the new thread (lines 1307-1311).
ThreadPointer(t, new_globalenv) == IF new_globalenv THEN {} ELSE {t}

\* The parent's value stack over new_thread (lines 1256-1269): the thread is
\* pushed, then the stash and _threads, the thread is duplicated and put,
\* and three values are popped.
NewThreadStack(d) == (d + 1 + 1 + 1 + 1 - 1) - 3

\* The keys of _threads after new_thread stores the thread under
\* str(id(thr)) (lines 1261-1269) in the global stash of self.ctx.
StoreThread(keys, t) == keys \cup {t}

\* finalize_thread (lines 1271-1278), run when the ThreadContext goes away.
FinalizeThreadKeeps(keys, t) == keys
FinalizeThread(keys, t) == keys \ {t}

\* ThreadContext.__dealloc__ (line 1325): self.ctx = NULL.
ThreadContextDeallocKeeps(h) == h
ThreadContextDealloc(h) == [h EXCEPT !.ctx = 0]

\* Context.__dealloc__ (lines 1136-1139), which runs for every context
\* handle, after ThreadContext.__dealloc__ for a ThreadContext.
ContextDealloc(w, h) ==
    IF h.ctx # 0
    THEN [w EXCEPT !.heap = "destroyed", !.destroyed = @ + 1]
    ELSE w

\* What keeps a context handle: host code, a proxy (line 377), a
\* ThreadContext whose parent it is (line 1298) and that thread's finalizer
\* closure (line 1274).
Referenced(w, c) ==
    \/ w.ctxs[c].held
    \/ w.ctxs[c].proxy
    \/ \E t \in ThreadIds : w.ctxs[t].live /\ w.ctxs[t].parent = c

\* The deallocation of handle c.
Dealloc(w, c) ==
    LET h == w.ctxs[c]
        pe == w.ctxs[h.parent].env
        fin == IF c = Root THEN w
               ELSE [w EXCEPT !.envs[pe].threads = FinalizeThread(@, c)]
        gone == ContextDealloc(fin, IF c = Root THEN h ELSE ThreadContextDealloc(h))
    IN [gone EXCEPT !.ctxs[c] = NoHandle,
                    !.envs[c] = IF h.env = c THEN NoEnv ELSE @]

\* Every handle that nothing refers to is deallocated, and so on for the
\* handles it referred to.
RECURSIVE Release(_)
Release(w) ==
    LET free == {c \in CtxIds : w.ctxs[c].live /\ ~Referenced(w, c)}
    IN IF free = {} THEN w ELSE Release(Dealloc(w, CHOOSE c \in free : TRUE))

\* duk_get_pyctx (lines 710-721) for script running on engine thread c.
GetPyctxGlobalOnly(w, c) == w.envs[w.ctxs[c].env].pyctx
GetPyctx(w, c) ==
    IF w.ctxs[c].ptr = {} THEN w.envs[w.ctxs[c].env].pyctx ELSE w.ctxs[c].ptr

\* What each context reads for the globals.
Views(w) == [c \in CtxIds |-> w.envs[w.ctxs[c].env].globals]

ThreadOp(op, on, made, key, val, pyctx, d0, w0) ==
    [op |-> op, on |-> on, made |-> made, key |-> key, val |-> val, pyctx |-> pyctx,
     d0 |-> d0, heap |-> w0.heap]

Running(w, lst) == [phase |-> "run", w |-> w, last |-> lst]

InitThreads ==
    /\ RefInit
    /\ thr = Running(InitWorld, ThreadOp("init", Root, Root, "g", 0, {}, 0, InitWorld))
    /\ txt = Idle /\ conv = Idle /\ dat = Idle /\ call = Idle
    /\ obj = Idle /\ gens = Idle /\ enc = Idle /\ dec = Idle /\ fn = Idle

Usable(c) == thr.w.ctxs[c].live /\ thr.w.ctxs[c].held

\* Context.new_thread(new_globalenv) on context p (lines 1255-1280).
NewThread(p, t, new_globalenv) ==
    /\ Usable(p)
    /\ ~thr.w.ctxs[t].live
    /\ \E w \in {thr.w} :
          \E e \in {ThreadEnv(w, p, t, new_globalenv)} :
             thr' = Running(
                [w EXCEPT
                   !.ctxs[t] = Handle(TRUE, TRUE, FALSE, p, CtxOf(t), e,
                                      ThreadPointer(t, new_globalenv), 0),
                   !.ctxs[p].depth = NewThreadStack(@),
                   !.envs = [[w.envs EXCEPT ![t] = IF new_globalenv THEN NewEnv(t) ELSE @]
                                EXCEPT ![w.ctxs[p].env].threads = StoreThread(@, t)]],
                ThreadOp("new_thread", p, t, "g", 0, {}, w.ctxs[p].depth, w))
    /\ UNCHANGED <<refVars, txt, conv, dat, call, obj, gens, enc, dec, fn>>

\* Context.__setitem__ (lines 1180-1182) on context c with a number.
CtxSetItem(c, key, val) ==
    /\ Usable(c)
    /\ \E w \in {thr.w} :
          thr' = Running([w EXCEPT !.envs[w.ctxs[c].env].globals[key] = val],
                         ThreadOp("setitem", c, c, key, val, {}, w.ctxs[c].depth, w))
    /\ UNCHANGED <<refVars, txt, conv, dat, call, obj, gens, enc, dec, fn>>

\* Context.__getitem__ (lines 1184-1186) on context c: the value read stays
\* on the stack.
CtxGetItem(c, key) ==
    /\ Usable(c)
    /\ thr.w.ctxs[c].depth < MaxReads
    /\ \E w \in {thr.w} :
          thr' = Running([w EXCEPT !.ctxs[c].depth = @ + 1],
                         ThreadOp("getitem", c, c, key, Views(w)[c][key], {},
                                  w.ctxs[c].depth, w))
    /\ UNCHANGED <<refVars, txt, conv, dat, call, obj, gens, enc, dec, fn>>

\* A host callable called by script that runs on context c: js_func_wrapper
\* (lines 724-753) resolves the handle and decodes and encodes on its stack.
CallHost(c) ==
    /\ Usable(c)
    /\ \E w \in {thr.w} :
          thr' = Running(w, ThreadOp("call", c, c, "g", 0, GetPyctx(w, c), w.ctxs[c].depth, w))
    /\ UNCHANGED <<refVars, txt, conv, dat, call, obj, gens, enc, dec, fn>>

\* Host code obtains a proxy through context c (Context.proxy, lines
\* 1282-1289), or lets go of it.
TakeProxy(c) ==
    /\ Usable(c)
    /\ ~thr.w.ctxs[c].proxy
    /\ \E w \in {thr.w} :
          thr' = Running([w EXCEPT !.ctxs[c].proxy = TRUE],
                         ThreadOp("proxy", c, c, "g", 0, {}, w.ctxs[c].depth, w))
    /\ UNCHANGED <<refVars, txt, conv, dat, call, obj, gens, enc, dec, fn>>

\* An operation on the proxy made through context c (push_proxy_ref, lines
\* 380-385, works on self.pyctx.ctx).
UseProxy(c) ==
    /\ thr.w.ctxs[c].live
    /\ thr.w.ctxs[c].proxy
    /\ \E w \in {thr.w} :
          thr' = Running(w, ThreadOp("proxy_op", c, c, "g", 0, {}, w.ctxs[c].depth, w))
    /\ UNCHANGED <<refVars, txt, conv, dat, call, obj, gens, enc, dec, fn>>

DropProxy(c) ==
    /\ thr.w.ctxs[c].live
    /\ thr.w.ctxs[c].proxy
    /\ \E w \in {thr.w} :
          thr' = Running(Release([w EXCEPT !.ctxs[c].proxy = FALSE]),
                         ThreadOp("drop_proxy", c, c, "g", 0, {}, w.ctxs[c].depth, w))
    /\ UNCHANGED <<refVars, txt, conv, dat, call, obj, gens, enc, dec, fn>>

\* Host code lets go of the handle of context c.
DropHandle(c) ==
    /\ Usable(c)
    /\ \E w \in {thr.w} :
          thr' = Running(Release([w EXCEPT !.ctxs[c].held = FALSE]),
                         ThreadOp("drop", c, c, "g", 0, {}, w.ctxs[c].depth, w))
    /\ UNCHANGED <<refVars, txt, conv, dat, call, obj, gens, enc, dec, fn>>

NextThreads ==
    \/ \E p \in CtxIds, t \in ThreadIds, g \in BOOLEAN : NewThread(p, t, g)
    \/ \E c \in CtxIds, key \in GKeys, val \in GVals : CtxSetItem(c, key, val)
    \/ \E c \in CtxIds, key \in GKeys : CtxGetItem(c, key)
    \/ \E c \in CtxIds : CallHost(c)
    \/ \E c \in CtxIds : TakeProxy(c)
    \/ \E c \in CtxIds : UseProxy(c)
    \/ \E c \in CtxIds : DropProxy(c)
    \/ \E c \in CtxIds : DropHandle(c)

SpecThreads == InitThreads /\ [][NextThreads]_vars

----------------------------------------------------------------------------
(* SpecZone: naive and timezone-aware date/time values through to_js_date *)

\* The tzinfo of a host value: none, or a fixed offset from UTC in seconds.
Tz(aware, off) == [aware |-> aware, off |-> off]
Naive == Tz(FALSE, 0)
ZoneOffsets == {0, 3600, 19800, 0 - 18000}

\* A datetime: the distance of its wall clock from 1970-01-01 00:00:00, and
\* its tzinfo.
Dt(days, secs, us, tz) == [days |-> days, secs |-> secs, us |-> us, tz |-> tz]

\* value.astimezone(pytz.utc).replace(tzinfo=None) (line 817).
ToUtcNaive(dt) ==
    LET n == NormUsec(Usec(dt.days, dt.secs - dt.tz.off, dt.us))
    IN Dt(n.days, n.secs, n.us, Naive)

\* to_js_date (lines 813-826): the datetime handed to to_epoch_usec.  An aware
\* datetime is converted to UTC and made naive; datetime.combine of a date and
\* time.min is naive; datetime.combine of the epoch date and a time keeps the
\* tzinfo of the time.
ToJsDateValue(h, tz) ==
    IF h.typ = "datetime"
    THEN IF tz.aware THEN ToUtcNaive(Dt(h.days, h.secs, h.us, tz))
         ELSE Dt(h.days, h.secs, h.us, tz)
    ELSE IF h.typ = "date" THEN Dt(h.days, 0, 0, Naive)
    ELSE Dt(0, h.secs, h.us, tz)

\* to_epoch_usec (lines 803-808): the assertion of line 804 fails for an
\* aware datetime; in a build without assertions the subtraction of the
\* naive UNIX_EPOCH (line 805) raises TypeError.
ToEpochUsecOf(dt) ==
    IF dt.tz.aware
    THEN {[outcome |-> e, epoch_usec |-> Usec(0, 0, 0)] : e \in {"AssertionError", "TypeError"}}
    ELSE {[outcome |-> "return", epoch_usec |-> ToEpochUsec(dt.days, dt.secs, dt.us)]}

\* The values drawn: naive ones and ones at UTC, UTC+1, UTC+5:30 and UTC-5.
\* A date has no tzinfo.
ZoneVals ==
    {[v |-> HostDate("datetime", d, s, u), tz |-> tz] :
        d \in {0, 1, 19509}, s \in {0, 1, 43200, SecsInDay - 1}, u \in {0, UsecsInSec - 1},
        tz \in {Naive} \cup {Tz(TRUE, o) : o \in ZoneOffsets}}
    \cup {[v |-> HostDate("date", d, 0, 0), tz |-> Naive] : d \in {0, 1, 19509}}
    \cup {[v |-> HostDate("time", 0, s, u), tz |-> tz] :
             s \in {0, 1, 43200, SecsInDay - 1}, u \in {0, UsecsInSec - 1},
             tz \in {Naive} \cup {Tz(TRUE, o) : o \in ZoneOffsets}}

InitZone ==
    /\ RefInit
    /\ dat \in {[phase |-> "input", v |-> z.v, tz |-> z.tz] : z \in ZoneVals}
    /\ txt = Idle /\ conv = Idle /\ call = Idle
    /\ MoreIdle

\* Context.__setitem__ with a datetime, date or time: to_js -> to_js_date.
ZoneSetItem ==
    /\ dat.phase = "input"
    /\ \E r \in ToEpochUsecOf(ToJsDateValue(dat.v, dat.tz)) :
          dat' = [phase |-> "encoded", v |-> dat.v, tz |-> dat.tz,
                  outcome |-> r.outcome, epoch_usec |-> r.epoch_usec]
    /\ UNCHANGED <<refVars, txt, conv, call, moreVars>>

NextZone == ZoneSetItem

SpecZone == InitZone /\ [][NextZone]_vars

----------------------------------------------------------------------------
(* SpecFunc: host closures, the script wrappers to_js_func makes for them, *)
(* and the references the wrappers hold                                    *)

MaxWrappers == 3

HostFuncs == {"f", "g"}
WrapIds == 1..MaxWrappers

\* A host closure: its reference count, whether host code still holds it,
\* and how many references to_js_func has taken and js_func_finalizer has
\* released.
HostFunc(refcnt, held, taken, released) ==
    [refcnt |-> refcnt, held |-> held, taken |-> taken, released |-> released]

\* A script wrapper: "none" before it is made, "reachable" while script can
\* call it, "unreachable" once script has dropped it, "finalized" after its
\* finalizer ran; and the closure behind __duktape_cfunc_pointer__.
Wrapper(st, of) == [st |-> st, of |-> of]
NoWrapper == Wrapper("none", "f")

\* to_js_func (lines 764-777): Py_INCREF(func) (line 768), then the wrapper
\* with its finalizer and the pointer to func.
ToJsFuncBorrows(cl) == cl
ToJsFunc(cl) == [cl EXCEPT !.refcnt = @ + 1, !.taken = @ + 1]

\* js_func_finalizer (lines 756-761): Py_DECREF of the closure behind the
\* pointer of the wrapper being finalized.
JsFuncFinalizerKeeps(cl) == cl
JsFuncFinalizer(cl) == [cl EXCEPT !.refcnt = @ - 1, !.released = @ + 1]

\* The finalizers of a set of wrappers, one after the other.
RECURSIVE Finalized(_, _, _)
Finalized(cls, wraps, ids) ==
    IF ids = {} THEN cls
    ELSE LET w == CHOOSE x \in ids : TRUE
         IN Finalized([cls EXCEPT ![wraps[w].of] = JsFuncFinalizer(@)], wraps, ids \ {w})

Pending(wraps) == {w \in WrapIds : wraps[w].st \in {"reachable", "unreachable"}}

FuncOp(op, w, freed) == [op |-> op, w |-> w, freed |-> freed]

FuncState(cls, wraps, heap, lst) ==
    [phase |-> "run", cls |-> cls, wraps |-> wraps, heap |-> heap, last |-> lst]

InitFunc ==
    /\ RefInit
    /\ fn = FuncState([f \in HostFuncs |-> HostFunc(1, TRUE, 0, 0)],
                      [w \in WrapIds |-> NoWrapper], "alive", FuncOp("init", 1, FALSE))
    /\ txt = Idle /\ conv = Idle /\ dat = Idle /\ call = Idle
    /\ obj = Idle /\ gens = Idle /\ enc = Idle /\ dec = Idle /\ thr = Idle

\* Host code hands closure f to script (Context.__setitem__ -> to_js ->
\* to_js_func): wrapper w is made.
PushFunc(f, w) ==
    /\ fn.heap = "alive"
    /\ fn.cls[f].held
    /\ fn.wraps[w].st = "none"
    /\ \A v \in WrapIds : v < w => fn.wraps[v].st # "none"
    /\ fn' = FuncState([fn.cls EXCEPT ![f] = ToJsFunc(@)],
                       [fn.wraps EXCEPT ![w] = Wrapper("reachable", f)],
                       fn.heap, FuncOp("push", w, FALSE))
    /\ UNCHANGED <<refVars, txt, conv, dat, call, obj, gens, enc, dec, thr>>

\* Script calls wrapper w: js_func_wrapper (lines 724-753) calls the closure
\* behind the pointer.
CallWrapper(w) ==
    /\ fn.heap = "alive"
    /\ fn.wraps[w].st = "reachable"
    /\ fn' = FuncState(fn.cls, fn.wraps, fn.heap,
                       FuncOp("call", w, fn.cls[fn.wraps[w].of].refcnt = 0))
    /\ UNCHANGED <<refVars, txt, conv, dat, call, obj, gens, enc, dec, thr>>

\* Script drops its last reference to wrapper w.
ScriptDrops(w) ==
    /\ fn.heap = "alive"
    /\ fn.wraps[w].st = "reachable"
    /\ fn' = FuncState(fn.cls, [fn.wraps EXCEPT ![w].st = "unreachable"], fn.heap,
                       FuncOp("unlink", w, FALSE))
    /\ UNCHANGED <<refVars, txt, conv, dat, call, obj, gens, enc, dec, thr>>

\* The engine collects wrapper w and runs its finalizer.
CollectWrapper(w) ==
    /\ fn.heap = "alive"
    /\ fn.wraps[w].st = "unreachable"
    /\ fn' = FuncState(Finalized(fn.cls, fn.wraps, {w}),
                       [fn.wraps EXCEPT ![w].st = "finalized"], fn.heap,
                       FuncOp("finalize", w, FALSE))
    /\ UNCHANGED <<refVars, txt, conv, dat, call, obj, gens, enc, dec, thr>>

\* Host code lets go of its own reference to closure f.
HostDrops(f) ==
    /\ fn.cls[f].held
    /\ fn' = FuncState([fn.cls EXCEPT ![f].held = FALSE, ![f].refcnt = @ - 1],
                       fn.wraps, fn.heap, FuncOp("drop", 1, FALSE))
    /\ UNCHANGED <<refVars, txt, conv, dat, call, obj, gens, enc, dec, thr>>

\* Context.__dealloc__ (lines 1136-1139): duk_destroy_heap runs the finalizer
\* of every wrapper that is left.
DestroyHeap ==
    /\ fn.heap = "alive"
    /\ fn' = FuncState(Finalized(fn.cls, fn.wraps, Pending(fn.wraps)),
                       [w \in WrapIds |-> IF w \in Pending(fn.wraps)
                                          THEN Wrapper("finalized", fn.wraps[w].of)
                                          ELSE fn.wraps[w]],
                       "destroyed", FuncOp("destroy", 1, FALSE))
    /\ UNCHANGED <<refVars, txt, conv, dat, call, obj, gens, enc, dec, thr>>

NextFunc ==
    \/ \E f \in HostFuncs, w \in WrapIds : PushFunc(f, w)
    \/ \E w \in WrapIds : CallWrapper(w)
    \/ \E w \in WrapIds : ScriptDrops(w)
    \/ \E w \in WrapIds : CollectWrapper(w)
    \/ \E f \in HostFuncs : HostDrops(f)
    \/ DestroyHeap

SpecFunc == InitFunc /\ [][NextFunc]_vars

----------------------------------------------------------------------------
(* SpecPush: Context._push of host values that to_js accepts or rejects,   *)
(* on a stack that holds what earlier calls left                           *)

\* JsType.__call__ and JsNew.__call__ (lines 960-980) seen from the value
\* stack: duk_get_global_dotted_string pops what it pushed when the name is
\* undefined (lines 97-107) and ValueError is raised; otherwise the
\* constructor stays, the arguments are pushed by to_js one after the other,
\* and duk_pnew replaces constructor and arguments by the new object.
JsNewPushed(defined, args) ==
    IF ~defined THEN [ok |-> FALSE, exc |-> "ValueError", stk |-> <<>>]
    ELSE IF ArgsPushed(args).ok THEN [ok |-> TRUE, exc |-> "none", stk |-> <<PropVal>>]
    ELSE [ok |-> FALSE, exc |-> "TypeError", stk |-> <<PropVal>> \o ArgsPushed(args).stk]

\* to_js(value) for a value that is no JsType.
ValuePushed(v) ==
    [ok |-> ToJsPushed(v).ok, exc |-> IF ToJsPushed(v).ok THEN "none" ELSE "TypeError",
     stk |-> ToJsPushed(v).stk]

\* The values pushed: numbers, None and values to_js has no branch for, alone
\* and inside lists, nested lists and dicts; and JsNew of a defined and of an
\* undefined global with such arguments.
PushMembers == {PyInt(1), PyNone, PyOpaque}
PushLists ==
    {PyList(<<a>>) : a \in PushMembers} \cup {PyList(<<a, b>>) : a, b \in PushMembers}
PushValues ==
    PushMembers \cup PushLists \cup {PyList(<<l>>) : l \in PushLists}
    \cup {PyDict(<<[key |-> <<97>>, val |-> x]>>) : x \in PushMembers \cup PushLists}
PushArgs ==
    {<<>>, <<PyInt(1)>>, <<PyOpaque>>, <<PyInt(1), PyOpaque>>, <<PyList(<<PyOpaque>>)>>}

InitPush ==
    /\ objs = <<>>
    /\ globals = [k \in Keys |-> Undef]
    /\ stack \in {[j \in 1..n |-> StashVal] : n \in 0..MaxStack}
    /\ refMap = <<>>
    /\ refCount = <<>>
    /\ proxies = [k \in Slots |-> NoProxy]
    /\ fatal = FALSE
    /\ last = NoResult
    /\ enc = [phase |-> "input"]
    /\ txt = Idle /\ conv = Idle /\ dat = Idle /\ call = Idle
    /\ obj = Idle /\ gens = Idle /\ dec = Idle /\ thr = Idle /\ fn = Idle

PushDone(what, r, d0) ==
    [phase |-> "pushed", what |-> what, ok |-> r.ok, exc |-> r.exc, d0 |-> d0,
     d1 |-> d0 + Len(r.stk)]

\* Context._push(value) (lines 1249-1250): to_js(self, value).
CtxPush(v) ==
    /\ enc.phase = "input"
    /\ \E r \in {ValuePushed(v)} :
          /\ stack' = stack \o r.stk
          /\ enc' = PushDone([new |-> FALSE, v |-> v, args |-> <<>>], r, Len(stack))
    /\ UNCHANGED <<objs, globals, refMap, refCount, proxies, fatal, last,
                   txt, conv, dat, call, obj, gens, dec, thr, fn>>

\* Context._push(JsNew(name, *args)), and Context._push(JsType(name)) for an
\* undefined name.
CtxPushNew(defined, args) ==
    /\ enc.phase = "input"
    /\ \E r \in {JsNewPushed(defined, args)} :
          /\ stack' = stack \o r.stk
          /\ enc' = PushDone([new |-> TRUE, v |-> PyNone, args |-> args], r, Len(stack))
    /\ UNCHANGED <<objs, globals, refMap, refCount, proxies, fatal, last,
                   txt, conv, dat, call, obj, gens, dec, thr, fn>>

NextPush ==
    \/ \E v \in PushValues : CtxPush(v)
    \/ \E defined \in BOOLEAN, args \in PushArgs : CtxPushNew(defined, args)

SpecPush == InitPush /\ [][NextPush]_vars

----------------------------------------------------------------------------
(* SpecSlice: ArrayProxy.get with a slice, on arrays of numbers *)

\* A bound or step of a slice: None, or an integer.
Omitted == [none |-> TRUE, v |-> 0]
Bound(n) == [none |-> FALSE, v |-> n]

\* The truth value the host language gives a bound: None and 0 are false.
Truthy(x) == ~x.none /\ x.v # 0

\* xrange(start, stop, step) for a step that is not zero, as a sequence.
XRangeLen(start, stop, step) ==
    IF step > 0
    THEN (IF stop > start THEN (stop - start + step - 1) \div step ELSE 0)
    ELSE (IF start > stop THEN (start - stop + (0 - step) - 1) \div (0 - step) ELSE 0)
XRange(start, stop, step) ==
    [j \in 1..XRangeLen(start, stop, step) |-> start + (j - 1) * step]

\* The indexes the slice branch of ArrayProxy.get visits (lines 522-524):
\* xrange(index.start if index.start else 0,
\*        min(index.stop if index.stop else length, length),
\*        index.step if index.step else 1)
SliceRange(a, b, s, length) ==
    XRange(IF Truthy(a) THEN a.v ELSE 0,
           Min({IF Truthy(b) THEN b.v ELSE length, length}),
           IF Truthy(s) THEN s.v ELSE 1)

\* [self.get(i) for i in ...] (line 521): one call of get for each index, in
\* order, each under push_and_pop_proxy; the first one that raises ends it.
RECURSIVE SliceGets(_, _, _, _, _, _)
SliceGets(m, os, rm, id, idxs, acc) ==
    IF idxs = <<>> THEN [m |-> m, outcome |-> "list", vals |-> acc]
    ELSE LET r == GetRun(m, os, rm, id, Head(idxs))
         IN IF r.outcome \in {"value", "proxy"}
            THEN SliceGets(r.m, os, rm, id, Tail(idxs), Append(acc, r.val))
            ELSE [m |-> r.m, outcome |-> r.outcome, vals |-> acc]

\* ArrayProxy.get(slice(a, b, s)) (lines 518-524) under push_and_pop_proxy
\* (lines 360-367): the length is read by self.length(), the elements by
\* self.get(i), and the list is returned before the try of line 525.
SliceRun(m0, os, rm, id, a, b, s) ==
    LET m1 == PushProxyRef(m0, rm, id)
        base == Top(m1.stk)
    IN IF base.t # "obj"
       THEN [m |-> Mach(m0.stk, TRUE), outcome |-> "fatal", vals |-> <<>>, arr |-> <<>>]
       ELSE LET arr == os[base.v].elems
                length == Len(arr)
                mL == LengthStack(m1, rm, id, length)
                r == SliceGets(mL, os, rm, id, SliceRange(a, b, s, length), <<>>)
                m3 == PopProxyRef(r.m)
            IN [m |-> m3, outcome |-> IF m3.fatal THEN "fatal" ELSE r.outcome,
                vals |-> r.vals, arr |-> arr]

SliceBounds == {Omitted} \cup {Bound(n) : n \in (0 - (MaxLen + 1))..(MaxLen + 1)}
SliceSteps == {Omitted, Bound(1), Bound(2), Bound(0 - 1)}

\* JsArray.__getitem__(slice(a, b, s)) (lines 500-501) on the array proxy in
\* slot k, whose elements are numbers.
ArraySlice(k, a, b, s) ==
    /\ ~fatal
    /\ proxies[k].kind = "JsArray"
    /\ \A e \in Range(objs[ProxiedArray(k).v].elems) : e.t = "num"
    /\ \E r \in {SliceRun(Mach(stack, FALSE), objs, refMap, proxies[k].ref, a, b, s)} :
          /\ stack' = r.m.stk
          /\ fatal' = r.m.fatal
          /\ last' = Done("slice")
    /\ UNCHANGED <<objs, globals, refMap, refCount, proxies, auxVars>>

NextSlice ==
    \/ \E key \in Keys, hv \in ListVals : SetGlobal(key, hv)
    \/ \E key \in Keys : Proxy(key)
    \/ \E k \in Slots, a \in SliceBounds, b \in SliceBounds, s \in SliceSteps :
          ArraySlice(k, a, b, s)

SpecSlice == Init /\ [][NextSlice]_vars

----------------------------------------------------------------------------
(* SpecOnly: ThreadOnly objects of one global environment, the root context *)
(* and the thread contexts made from it by new_thread(), their value stacks *)
(* and thread stashes                                                       *)

MaxLeft == 1

OnlyNames == {"A", "B"}
OnlyAddrs == 1..2
OnlyVals == {1}

\* The constructor a script hands to ThreadOnly for the global of that name.
CtorOf(name) == IF name = "A" THEN "FA" ELSE "FB"

\* thread_only_constructor (lines 1006-1030): the target carries the hidden
\* constructor and name; its hidden id is its heap address, the key of the
\* table below.
ThreadOnlyConstructor(ctor, name) == [live |-> TRUE, ctor |-> ctor, name |-> name]
NoOnly == [live |-> FALSE, ctor |-> "none", name |-> "none"]

\* An instance in a thread stash, under the id of a ThreadOnly.
Inst(ctor, x) == [made |-> TRUE, ctor |-> ctor, x |-> x]
NoInst == [made |-> FALSE, ctor |-> "none", x |-> 0]

\* The globals (0 for undefined), the ThreadOnly targets by address, the value
\* stack of each thread context, the thread stash of each context, and, for
\* the statements, the contexts that called init_thread_only on the object
\* now at an address.
OnlyWorld(globals_, heap, stacks, stash, inited, aborted) ==
    [globals |-> globals_, heap |-> heap, stacks |-> stacks, stash |-> stash,
     inited |-> inited, aborted |-> aborted]

InitOnlyWorld ==
    OnlyWorld([n \in OnlyNames |-> 0], [a \in OnlyAddrs |-> NoOnly],
              [c \in ThreadIds |-> <<>>],
              [c \in CtxIds |-> [a \in OnlyAddrs |-> NoInst]],
              [c \in CtxIds |-> {}], FALSE)

\* The engine frees a target that no global and no value stack refers to;
\* the thread stashes are keyed by the id string and keep their entries.
OnlyReachable(w) ==
    {w.globals[n] : n \in OnlyNames}
    \cup {v.v : v \in {e \in UNION {Range(w.stacks[c]) : c \in ThreadIds} : e.t = "obj"}}
OnlyCollect(w) ==
    [w EXCEPT !.heap = [a \in OnlyAddrs |-> IF a \in OnlyReachable(w) THEN @[a] ELSE NoOnly],
              !.inited = [c \in CtxIds |-> @[c] \cap OnlyReachable(w)]]

\* thread_only_get_handler (lines 1033-1058) for script running in context c
\* that reads property x of the ThreadOnly at address a.
ThreadOnlyGet(w, c, a) ==
    IF ~w.stash[c][a].made
    THEN [ok |-> FALSE, name |-> w.heap[a].name, val |-> 0]
    ELSE [ok |-> TRUE, name |-> w.heap[a].name, val |-> w.stash[c][a].x]

\* thread_only_set_handler (lines 1061-1084): the stash after script running
\* in context c writes v to property x.
ThreadOnlySet(w, c, a, v) ==
    IF ~w.stash[c][a].made THEN w.stash
    ELSE [w.stash EXCEPT ![c][a].x = v]

\* init_thread_only(key) (lines 1335-1345) on thread context c.  The global,
\* the thread stash and the id are pushed; the constructor is read from the
\* value at index 0 of the value stack (line 1340); duk_pnew calls it and
\* lines 1344-1345 store the instance and pop.  A value without the hidden
\* property gives undefined, which duk_pnew refuses: duk_reraise pops the
\* error and raises, and the three values stay.  Reading a property of
\* undefined is an error outside a protected call.
InitThreadOnlyCtorOwn(w, a, base) == w.heap[a].ctor
InitThreadOnlyCtor(w, a, base) ==
    IF base.t = "obj" THEN w.heap[base.v].ctor ELSE "none"

InitThreadOnly(w, c, key) ==
    IF w.globals[key] = 0
    THEN [w |-> w, outcome |-> "RuntimeError"]
    ELSE LET a == w.globals[key]
             s1 == w.stacks[c] \o <<Ref(a), StashVal, Num(a)>>
             base == s1[1]
         IN IF base = Undef
            THEN [w |-> [w EXCEPT !.aborted = TRUE], outcome |-> "fatal"]
            ELSE IF InitThreadOnlyCtor(w, a, base) = "none"
            THEN [w |-> [w EXCEPT !.stacks[c] = s1], outcome |-> "Error"]
            ELSE [w |-> [w EXCEPT !.stash[c][a] = Inst(InitThreadOnlyCtor(w, a, base), 0),
                                  !.inited[c] = @ \cup {a},
                                  !.stacks[c] = PopN(s1, 3)],
                  outcome |-> "ok"]

OnlyOp(op, c, key, a, outcome, val, d0, d1, w0) ==
    [op |-> op, c |-> c, key |-> key, a |-> a, outcome |-> outcome, val |-> val,
     d0 |-> d0, d1 |-> d1, inited |-> a \in w0.inited[c]]

OnlyState(w, lst) == [phase |-> "only", w |-> w, last |-> lst]

InitOnlySpec ==
    /\ RefInit
    /\ thr = OnlyState(InitOnlyWorld, OnlyOp("init", Root, "A", 0, "ok", 0, 0, 0, InitOnlyWorld))
    /\ txt = Idle /\ conv = Idle /\ dat = Idle /\ call = Idle
    /\ obj = Idle /\ gens = Idle /\ enc = Idle /\ dec = Idle /\ fn = Idle

OnlyDepth(w, c) == IF c = Root THEN 0 ELSE Len(w.stacks[c])

\* Context.load (lines 1191-1226) of a script "key = new ThreadOnly(F, 'key')"
\* on the root context; load pops the result.
DeclareOnly(key) ==
    /\ ~thr.w.aborted
    /\ \E w \in {thr.w} :
          \E a \in {b \in OnlyAddrs : ~w.heap[b].live} :
             thr' = OnlyState(
                OnlyCollect([w EXCEPT !.globals[key] = a,
                                      !.heap[a] = ThreadOnlyConstructor(CtorOf(key), key)]),
                OnlyOp("declare", Root, key, a, "ok", 0, 0, 0, w))
    /\ UNCHANGED <<refVars, txt, conv, dat, call, obj, gens, enc, dec, fn>>

\* Context.load of a script "key = undefined" on the root context.
ForgetOnly(key) ==
    /\ ~thr.w.aborted
    /\ thr.w.globals[key] # 0
    /\ \E w \in {thr.w} :
          thr' = OnlyState(OnlyCollect([w EXCEPT !.globals[key] = 0]),
                           OnlyOp("forget", Root, key, w.globals[key], "ok", 0, 0, 0, w))
    /\ UNCHANGED <<refVars, txt, conv, dat, call, obj, gens, enc, dec, fn>>

\* Context.load on context c of a script that reads key.x: the get handler
\* runs in c.
OnlyRead(c, key) ==
    /\ ~thr.w.aborted
    /\ thr.w.globals[key] # 0
    /\ \E w \in {thr.w} :
          \E r \in {ThreadOnlyGet(w, c, w.globals[key])} :
             thr' = OnlyState(w, OnlyOp("read", c, key, w.globals[key],
                                        IF r.ok THEN "ok" ELSE "not initialized", r.val,
                                        OnlyDepth(w, c), OnlyDepth(w, c), w))
    /\ UNCHANGED <<refVars, txt, conv, dat, call, obj, gens, enc, dec, fn>>

\* Context.load on context c of a script "key.x = v": the set handler runs
\* in c.
OnlyWrite(c, key, v) ==
    /\ ~thr.w.aborted
    /\ thr.w.globals[key] # 0
    /\ \E w \in {thr.w} :
          thr' = OnlyState([w EXCEPT !.stash = ThreadOnlySet(w, c, w.globals[key], v)],
                           OnlyOp("write", c, key, w.globals[key],
                                  IF w.stash[c][w.globals[key]].made THEN "ok"
                                  ELSE "not initialized", v,
                                  OnlyDepth(w, c), OnlyDepth(w, c), w))
    /\ UNCHANGED <<refVars, txt, conv, dat, call, obj, gens, enc, dec, fn>>

\* Context.eval (lines 1229-1239) on thread context c of a script whose value
\* is undefined (a statement) or a number: the result stays on the stack.
OnlyEval(c, val) ==
    /\ ~thr.w.aborted
    /\ Len(thr.w.stacks[c]) < MaxLeft
    /\ \E w \in {thr.w} :
          thr' = OnlyState([w EXCEPT !.stacks[c] = Push(@, val)],
                           OnlyOp("eval", c, "A", 0, "ok", 0, Len(w.stacks[c]),
                                  Len(w.stacks[c]) + 1, w))
    /\ UNCHANGED <<refVars, txt, conv, dat, call, obj, gens, enc, dec, fn>>

\* Context.__getitem__ (lines 1184-1186) on thread context c for a ThreadOnly
\* global: the value read stays on the stack.
OnlyGetItem(c, key) ==
    /\ ~thr.w.aborted
    /\ thr.w.globals[key] # 0
    /\ Len(thr.w.stacks[c]) < MaxLeft
    /\ \E w \in {thr.w} :
          thr' = OnlyState([w EXCEPT !.stacks[c] = Push(@, Ref(w.globals[key]))],
                           OnlyOp("getitem", c, key, w.globals[key], "ok", 0,
                                  Len(w.stacks[c]), Len(w.stacks[c]) + 1, w))
    /\ UNCHANGED <<refVars, txt, conv, dat, call, obj, gens, enc, dec, fn>>

\* ThreadContext.init_thread_only(key) on thread context c.
InitOnly(c, key) ==
    /\ ~thr.w.aborted
    /\ Len(thr.w.stacks[c]) <= MaxLeft
    /\ \E w \in {thr.w} :
          \E r \in {InitThreadOnly(w, c, key)} :
             thr' = OnlyState(r.w, OnlyOp("init_thread_only", c, key, w.globals[key],
                                          r.outcome, 0, Len(w.stacks[c]),
                                          Len(r.w.stacks[c]), w))
    /\ UNCHANGED <<refVars, txt, conv, dat, call, obj, gens, enc, dec, fn>>

\* SpecOnly: scripts run by load, which keeps the value stacks empty.
NextOnly ==
    \/ \E key \in OnlyNames : DeclareOnly(key)
    \/ \E key \in OnlyNames : ForgetOnly(key)
    \/ \E c \in CtxIds, key \in OnlyNames : OnlyRead(c, key)
    \/ \E c \in CtxIds, key \in OnlyNames, v \in OnlyVals : OnlyWrite(c, key, v)
    \/ \E c \in ThreadIds, key \in OnlyNames : InitOnly(c, key)

SpecOnly == InitOnlySpec /\ [][NextOnly]_vars

\* SpecInitOnly: init_thread_only after eval and global reads.
NextInitOnly ==
    \/ \E key \in OnlyNames : DeclareOnly(key)
    \/ \E c \in ThreadIds, val \in {Undef, Num(2)} : OnlyEval(c, val)
    \/ \E c \in ThreadIds, key \in OnlyNames : OnlyGetItem(c, key)
    \/ \E c \in ThreadIds, key \in OnlyNames : InitOnly(c, key)

SpecInitOnly == InitOnlySpec /\ [][NextInitOnly]_vars

----------------------------------------------------------------------------
(* SpecCycle: to_python on graphs of script arrays, step by step *)

MaxNest == 3        \* nesting at which the engine's value stack is used up
GraphNodes == 1..2

\* The arrays of a graph: each element a number or one of the arrays.
GraphElems == {Num(1)} \cup {Ref(n) : n \in GraphNodes}
GraphArrays == {<<>>} \cup {<<e>> : e \in GraphElems} \cup {<<e, f>> : e, f \in GraphElems}
Graphs == [GraphNodes -> GraphArrays]

\* A call of to_python_list (lines 274-281) in progress: the array and the
\* loop variable i.
Frame(node, i) == [node |-> node, i |-> i]

Decoding(phase, g, frames) == [phase |-> phase, g |-> g, frames |-> frames]

InitCycle ==
    /\ RefInit
    /\ dec \in {Decoding("input", g, <<>>) : g \in Graphs}
    /\ txt = Idle /\ conv = Idle /\ dat = Idle /\ call = Idle
    /\ obj = Idle /\ gens = Idle /\ enc = Idle /\ thr = Idle /\ fn = Idle

\* to_python (lines 647-648) called on array 1, which is on the value stack.
ToPythonStart ==
    /\ dec.phase = "input"
    /\ dec' = Decoding("running", dec.g, <<Frame(1, 0)>>)
    /\ UNCHANGED <<refVars, txt, conv, dat, call, obj, gens, enc, thr, fn>>

\* One iteration of the loop of to_python_list (lines 277-280): the element
\* is pushed and to_python is called on it; a number is decoded at once and
\* popped, an array starts a nested to_python_list.  Nothing records the
\* arrays being decoded.  Each nested call holds one more value on the value
\* stack, which the engine does not extend without duk_check_stack: the push
\* that finds it full is an error outside a protected call.
ListVisit(frames, e) ==
    IF e.t = "obj" THEN Append(frames, Frame(e.v, 0))
    ELSE [frames EXCEPT ![Len(frames)].i = @ + 1]

ListNext ==
    /\ dec.phase = "running"
    /\ \E f \in {dec.frames[Len(dec.frames)]} :
          /\ f.i < Len(dec.g[f.node])
          /\ dec' = IF Len(dec.frames) >= MaxNest
                    THEN Decoding("aborted", dec.g, dec.frames)
                    ELSE Decoding("running", dec.g, ListVisit(dec.frames, dec.g[f.node][f.i + 1]))
    /\ UNCHANGED <<refVars, txt, conv, dat, call, obj, gens, enc, thr, fn>>

\* The loop is over (line 281): the list is returned, to the caller of
\* to_python or to the loop of the enclosing array, which appends it and
\* pops the element.
ListReturn ==
    /\ dec.phase = "running"
    /\ \E f \in {dec.frames[Len(dec.frames)]} :
          /\ f.i = Len(dec.g[f.node])
          /\ dec' = IF Len(dec.frames) = 1
                    THEN Decoding("returned", dec.g, <<>>)
                    ELSE Decoding("running", dec.g,
                                  [PopN(dec.frames, 1) EXCEPT ![Len(dec.frames) - 1].i = @ + 1])
    /\ UNCHANGED <<refVars, txt, conv, dat, call, obj, gens, enc, thr, fn>>

NextCycle == ToPythonStart \/ ListNext \/ ListReturn

SpecCycle == InitCycle /\ [][NextCycle]_vars /\ WF_vars(NextCycle)

----------------------------------------------------------------------------
(* SpecStamp: a Date made by to_js_date, the calls script makes on it      *)
(* through its proxy, and its decoding                                     *)

StampUsecs == {0, 1500, 2000, 3723456}
StampTypes == {"datetime", "date", "time"}
StampProps == {"setTime", "setup", "getTime"}
StampArgs == {2, 7, 9}

\* The target of the proxy: the time value of the Date in milliseconds, and
\* the hidden properties epoch_usec and dt_type when it has them.
DateTarget(ms, tagged, usec, typ) == [ms |-> ms, tagged |-> tagged, usec |-> usec, typ |-> typ]
NoTarget == DateTarget(0, FALSE, 0, "none")

\* to_js_date (lines 828-842) for a count of microseconds that is not
\* negative: new Date(epoch_usec / 1e3) keeps the whole milliseconds, and the
\* count and the type are stored in the hidden properties.
ToJsDateTarget(usec, typ) == DateTarget(usec \div 1000, TRUE, usec, typ)

\* str.startswith(b'set') of line 854 for the names drawn.
StartsWithSet(prop) == prop \in {"setTime", "setup"}

\* What calling the method prop of a Date does to its time value; a name
\* that is no method of Date is an error of the call.
DateMethod(t, prop, arg) == IF prop = "setTime" THEN [t EXCEPT !.ms = arg] ELSE t

\* js_date_proxy_set_wrapper (lines 871-888): the method is called on the
\* target by duk_pcall_prop, whose result or error is returned, and the two
\* hidden properties are deleted.
SetWrapperKeepsTags(t, prop, arg) == DateMethod(t, prop, arg)
SetWrapper(t, prop, arg) ==
    [DateMethod(t, prop, arg) EXCEPT !.tagged = FALSE, !.usec = 0, !.typ = "none"]

\* Script calls d.prop(arg) on the proxy: js_date_proxy_get_handler (lines
\* 845-868) returns the set wrapper for a name that starts with "set" while
\* the hidden epoch_usec is there, and the property of the target, bound to
\* the target when it is a function, otherwise.
DateProxyCall(t, prop, arg) ==
    IF t.tagged /\ StartsWithSet(prop) THEN SetWrapper(t, prop, arg)
    ELSE DateMethod(t, prop, arg)

\* to_python, the Date branch (lines 666-689), for the Date at stack index
\* idx with nothing above it: -1, or 0 for the only argument of a host
\* callable (line 743).  With the hidden count the value is made of it and of
\* dt_type; without, getTime is called and duk_get_number(ctx, idx) reads
\* its result at -1, or the Date itself at 0, which is no number.
DateOut(outcome, usec, typ) == [outcome |-> outcome, usec |-> usec, typ |-> typ]
ToPythonStamp(t, idx) ==
    IF t.tagged THEN DateOut("return", t.usec, t.typ)
    ELSE IF idx = 0 - 1 THEN DateOut("return", t.ms * 1000, "datetime")
    ELSE DateOut("ValueError", 0, "none")

Stamped(d, stale, called, lst) ==
    [phase |-> "stamp", d |-> d, stale |-> stale, called |-> called, last |-> lst]
StampOp(op, idx, out) == [op |-> op, idx |-> idx, out |-> out]

InitStamp ==
    /\ RefInit
    /\ dat = Stamped(NoTarget, 0, FALSE, StampOp("init", 0, DateOut("none", 0, "none")))
    /\ txt = Idle /\ conv = Idle /\ call = Idle
    /\ MoreIdle

\* Context.__setitem__ with a datetime, date or time; a date is midnight.
StampSetItem(usec, typ) ==
    /\ typ = "date" => usec = 0
    /\ dat' = Stamped(ToJsDateTarget(usec, typ), usec, FALSE,
                      StampOp("setitem", 0, DateOut("none", 0, "none")))
    /\ UNCHANGED <<refVars, txt, conv, call, moreVars>>

\* Script calls a method of the Date.
StampCall(prop, arg) ==
    /\ dat.d # NoTarget
    /\ dat' = Stamped(DateProxyCall(dat.d, prop, arg), dat.stale,
                      dat.called \/ StartsWithSet(prop),
                      StampOp(prop, 0, DateOut("none", 0, "none")))
    /\ UNCHANGED <<refVars, txt, conv, call, moreVars>>

\* The Date is decoded: as the result of eval or a global read (idx -1), or
\* as the argument of a host callable (idx 0).
StampDecode(idx) ==
    /\ dat.d # NoTarget
    /\ dat' = Stamped(dat.d, dat.stale, dat.called,
                      StampOp("decode", idx, ToPythonStamp(dat.d, idx)))
    /\ UNCHANGED <<refVars, txt, conv, call, moreVars>>

NextStamp ==
    \/ \E usec \in StampUsecs, typ \in StampTypes : StampSetItem(usec, typ)
    \/ \E prop \in StampProps, arg \in StampArgs : StampCall(prop, arg)
    \/ \E idx \in {0 - 1, 0} : StampDecode(idx)

SpecStamp == InitStamp /\ [][NextStamp]_vars

----------------------------------------------------------------------------
(* SpecFinal: the finalizers of proxies and of thread contexts, run by the *)
(* host's garbage collector while keys() iterations are suspended between  *)
(* push_proxy_ref and pop_proxy_ref                                        *)

\* Whether some keys() iteration is suspended at the yield (1) or none (0).
Suspended == IF \E i \in Gens : gens.g[i].pc = "yielded" THEN 1 ELSE 0

\* The proxies of the object at address o that an iteration in progress
\* holds (the generator keeps self).
HeldByKeys(o) == IF \E i \in Gens : InProgress(gens.g[i]) /\ gens.g[i].o = o THEN 1 ELSE 0

\* The value stack over finalize_thread (lines 1271-1277): the stash and
\* _threads are pushed, the key is deleted, duk_pop_n(ctx, 2).
FinalizeThreadStack(m) == DukPop(DukPop(DukPush(DukPush(m, StashVal), StashVal)))

\* A context with two proxies of every object and with the thread contexts
\* made by new_thread.
InitFinal ==
    /\ objs = [a \in Addrs |-> [kind |-> "plain", elems |-> <<>>]]
    /\ globals = [k \in Keys |-> Ref(ObjAddr)]
    /\ stack \in {[j \in 1..n |-> StashVal] : n \in 0..MaxStack}
    /\ refMap = [id \in {RefIdOf(a) : a \in Addrs} |-> Ref(id[2])]
    /\ refCount = [id \in {RefIdOf(a) : a \in Addrs} |-> 2]
    /\ proxies = [k \in Slots |-> NoProxy]
    /\ fatal = FALSE
    /\ last = NoResult
    /\ gens = [phase |-> "run", base |-> Len(stack), started |-> 0,
               g |-> [i \in Gens |-> NoGen]]
    /\ thr = [phase |-> "threads", keys |-> ThreadIds]
    /\ txt = Idle /\ conv = Idle /\ dat = Idle /\ call = Idle
    /\ obj = Idle /\ enc = Idle /\ dec = Idle /\ fn = Idle

\* finalize_proxy (lines 322-336) of a proxy of the object at address o that
\* the host has dropped; it is not the proxy a keys() iteration holds.
ProxyFinalizer(o) ==
    /\ ~fatal
    /\ RefIdOf(o) \in DOMAIN refCount
    /\ RefCountGet(refCount, RefIdOf(o)) > HeldByKeys(o)
    /\ \E m \in {FinalStack(Mach(stack, FALSE), refCount, RefIdOf(o))} :
          /\ stack' = m.stk
          /\ fatal' = m.fatal
          /\ refCount' = IF m.fatal THEN refCount ELSE FinalRefCount(refCount, RefIdOf(o))
          /\ refMap' = IF m.fatal THEN refMap ELSE FinalRefMap(refMap, refCount, RefIdOf(o))
          /\ last' = Result("finalize_proxy", IF m.fatal THEN "fatal" ELSE "ok", Undef,
                            0, 0, 0, Suspended, <<>>)
    /\ UNCHANGED <<objs, globals, proxies, auxVars>>

\* finalize_thread (lines 1271-1277) of thread context t, on the stack of the
\* context that made it.
ThreadFinalizer(t) ==
    /\ ~fatal
    /\ t \in thr.keys
    /\ \E m \in {FinalizeThreadStack(Mach(stack, FALSE))} :
          /\ stack' = m.stk
          /\ fatal' = m.fatal
          /\ last' = Result("finalize_thread", IF m.fatal THEN "fatal" ELSE "ok", Undef,
                            0, 0, 0, Suspended, <<>>)
    /\ thr' = [thr EXCEPT !.keys = FinalizeThread(@, t)]
    /\ UNCHANGED <<objs, globals, refMap, refCount, proxies,
                   txt, conv, dat, call, obj, gens, enc, dec, fn>>

NextFinal ==
    \/ \E i \in Gens, o \in Addrs : KeysStart(i, o)
    \/ \E i \in Gens : KeysNext(i)
    \/ \E o \in Addrs : ProxyFinalizer(o)
    \/ \E t \in ThreadIds : ThreadFinalizer(t)

SpecFinal == InitFinal /\ [][NextFinal]_vars

----------------------------------------------------------------------------
(* Statements about the reference table (Spec) *)

LiveProxies(r) == {k \in Slots : proxies[k] # NoProxy /\ proxies[k].ref = r}
ProxiesOf(a) == {k \in Slots : proxies[k] # NoProxy /\ proxies[k].addr = a}
AllRefIds == {HexOf(a) : a \in Addrs} \cup DOMAIN refMap \cup DOMAIN refCount

\* C1: for every reference id r, r is a key of _ref_map iff r is a key of
\* _ref_count with a value >= 1, and that value is the number of proxies with
\* id r made by to_python_proxy and not yet finalized.
C1_RefCountMatchesProxies ==
    \A r \in AllRefIds :
        /\ (r \in DOMAIN refMap) <=> (r \in DOMAIN refCount /\ refCount[r] >= 1)
        /\ RefCountGet(refCount, r) = Cardinality(LiveProxies(r))

\* C1 witness: a proxy has just been finalized and another proxy of the same
\* id is left, its entry counting 1.
C1_Witness ==
    /\ last.op = "finalize"
    /\ \E r \in DOMAIN refMap : refCount[r] = 1 /\ Cardinality(LiveProxies(r)) = 1

\* C2: the proxies of one live script object share one reference id and one
\* table entry, which counts them; while any of them is left the entry
\* resolves to that object, which has not been freed; once none is left the id
\* is in neither table; so two different objects with live proxies never have
\* the same id.
C2_OneEntryPerObject ==
    /\ \A k \in Slots : proxies[k] # NoProxy =>
           /\ ~proxies[k].stale
           /\ proxies[k].addr \in DOMAIN objs
           /\ Resolve(refMap, proxies[k].ref) = Ref(proxies[k].addr)
           /\ \A j \in ProxiesOf(proxies[k].addr) : proxies[j].ref = proxies[k].ref
           /\ RefCountGet(refCount, proxies[k].ref) = Cardinality(ProxiesOf(proxies[k].addr))
    /\ \A a \in Addrs : ProxiesOf(a) = {} =>
           HexOf(a) \notin DOMAIN refMap \cup DOMAIN refCount

\* C2 witness: two proxies of the same object made by two decode operations,
\* one entry counting 2, and a second object alive beside it.
C2_Witness ==
    \E k, j \in Slots :
        /\ k # j /\ proxies[k] # NoProxy /\ proxies[j] # NoProxy
        /\ proxies[k].ref = proxies[j].ref
        /\ refCount[proxies[k].ref] = 2
        /\ Cardinality(DOMAIN objs) = 2

----------------------------------------------------------------------------
(* Statements about ArrayProxy.get (SpecArray) *)

OutOfRange(i, n) == i >= n \/ i < 0 - n

\* C9: ArrayProxy.get(i) leaves the value-stack depth as it was, for every
\* integer i, whether it returns or raises.
C9_GetKeepsDepth == last.op = "get" => last.d1 = last.d0

\* C10: ArrayProxy.get(i) raises IndexError for every i >= n and every i < -n,
\* n the current length, and returns the element at i (or n+i) otherwise.
C10_GetIndexError ==
    last.op = "get" =>
        IF OutOfRange(last.idx, last.n)
        THEN last.outcome = "IndexError"
        ELSE /\ last.outcome \in {"value", "proxy"}
             /\ last.val = last.arr[(IF last.idx < 0 THEN last.n + last.idx ELSE last.idx) + 1]

----------------------------------------------------------------------------
(* Statements about text transcoding (SpecText) *)

\* The bytes ED [A0-AF] [80-BF] ED [B0-BF] [80-BF].
IsSixBytePattern(b) ==
    /\ Len(b) = 6
    /\ b[1] = 237 /\ b[2] \in 160..175 /\ b[3] \in 128..191
    /\ b[4] = 237 /\ b[5] \in 176..191 /\ b[6] \in 128..191

\* The six bytes for y = cp - 0x10000: ED, A0|y[19:16], 80|y[15:10],
\* ED, B0|y[9:6], 80|y[5:0].
SixBytesOf(cp) ==
    LET y == cp - 65536
    IN <<237, 160 + ((y \div 65536) % 16), 128 + ((y \div 1024) % 64),
         237, 176 + ((y \div 64) % 16), 128 + (y % 64)>>

\* The standard four-byte UTF-8 encoding of a code point above U+FFFF.
Utf8FourBytesOf(cp) ==
    <<240 + (cp \div 262144), 128 + ((cp \div 4096) % 64),
      128 + ((cp \div 64) % 64), 128 + (cp % 64)>>

\* C7: a code point above U+FFFF is encoded as the six bytes ED [A0-AF]
\* [80-BF] ED [B0-BF] [80-BF] carrying the bits of cp - 0x10000, and the decoder
\* turns exactly that pattern into the standard four-byte UTF-8 encoding of
\* the same code point before decoding.
C7_SupplementaryCesu8 ==
    /\ txt.phase \in {"encoded", "decoded"} =>
          /\ txt.cesu = SixBytesOf(txt.cps[1])
          /\ IsSixBytePattern(txt.cesu)
    /\ txt.phase = "decoded" =>
          /\ txt.utf8 = Utf8FourBytesOf(txt.cps[1])
          /\ txt.out = [ok |-> TRUE, cps |-> txt.cps]

C7_Witness ==
    /\ txt.phase = "decoded"
    /\ txt.cps = <<128512>>
    /\ txt.utf8 = <<240, 159, 152, 128>>

----------------------------------------------------------------------------
(* Statements about value conversion (SpecConv) *)

\* C6: for every host value v of the kinds null, bool, int, float, text, list
\* and string-keyed dict of such values, decoding with to_python what to_js
\* pushed for v yields a value equal to v.
C6_RoundTrip ==
    conv.phase = "decoded" => PyEq(conv.out, conv.v)

----------------------------------------------------------------------------
(* Statements about date/time values (SpecDate) *)

\* C8: decoding the script Date made from a naive datetime yields a datetime
\* with the identical microsecond count; an encoded date-only value decodes to
\* an equal date-only value, a time-only value to an equal time-only value,
\* and a datetime to a datetime.
C8_DateFidelity ==
    dat.phase = "decoded" => dat.out = dat.v

----------------------------------------------------------------------------
(* Statements about calls into script (SpecCall) *)

\* The host closure raised, and the script did not catch what the trampoline
\* threw, in an eval, a load or a function-proxy call.
ClosureErrorPropagated ==
    /\ call.phase = "done"
    /\ call.op \in {"eval", "load", "call"}
    /\ call.script.body = "call" /\ ~call.script.catch
    /\ call.script.f.does = "raise"
    /\ call.rc = 1

ArgsEqual(a, b) ==
    /\ Len(a) = Len(b)
    /\ \A i \in 1..Len(a) : PyEq(a[i], b[i])

\* e is x or lies on the __cause__ chain of x (three links at most here).
OnCauseChain(e, x) ==
    \/ x = e
    \/ x.cause # <<>> /\ x.cause[1] = e
    \/ x.cause # <<>> /\ x.cause[1].cause # <<>> /\ x.cause[1].cause[1] = e

\* C3: when a host closure raises an exception of type E with args A and the
\* script exception propagates back to host code, the host caller sees a
\* raised exception of exactly type E with args equal to A, and the original
\* exception object is on the raised exception's __cause__ chain.
C3_ClosureErrorResurfaces ==
    ClosureErrorPropagated =>
        /\ call.outcome.kind = "raise"
        /\ call.outcome.exc.cls = call.script.f.exc.cls
        /\ ArgsEqual(call.outcome.exc.args, call.script.f.exc.args)
        /\ OnCauseChain(call.script.f.exc, call.outcome.exc)

\* The trampoline ran a closure that raised, or whose return value cannot be
\* encoded.
ClosureFailed ==
    /\ call.phase = "done"
    /\ call.tramp # NoTramp
    /\ call.script.body = "call"
    /\ \/ call.script.f.does = "raise"
       \/ call.script.f.does = "return" /\ ~CanEncode(call.script.f.val)

\* C4: when the closure raises any exception or its return value cannot be
\* encoded, the trampoline ends by throwing a script error that script code
\* can catch: a PythonError tagged with the exception's qualified type name,
\* message and args, or a generic error object when the exception cannot be
\* encoded.
C4_TrampolineThrows ==
    ClosureFailed =>
        /\ call.tramp.kind = "throw"
        /\ call.tramp.thrown.python_error # <<>>
        /\ LET e == call.tramp.thrown.python_error[1]
               encodable == \A i \in 1..Len(e.args) : CanEncode(e.args[i])
           IN /\ call.script.f.does = "raise" => e = call.script.f.exc
              /\ IF encodable
                 THEN /\ call.tramp.thrown.t = "PythonError"
                      /\ call.tramp.thrown.exc_name = ExcNameOf(e.cls)
                      /\ call.tramp.thrown.args = JsArr(ToJsArray(e.args))
                 ELSE call.tramp.thrown.t = "Error"
        /\ call.script.catch => call.outcome = Returned(PushString(CaughtText))

\* The exception is the duktape Error that carries the script stack trace.
IsStackTraceError(e) == e.cls = DukErrorCls /\ e.args = <<PyStackTrace>>

\* C5: a script call made from host code that ends with a script exception
\* gives the host caller a raised exception, either a duktape Error whose
\* message is the script stack trace or an exception decoded from the thrown
\* value whose __cause__ is that Error, and the thrown value is popped: the
\* stack depth is the depth before the call.
C5_ScriptErrorRaisedAndPopped ==
    (call.phase = "done" /\ call.rc # 0) =>
        /\ call.outcome.kind = "raise"
        /\ \/ IsStackTraceError(call.outcome.exc)
           \/ /\ ToPythonThrown(call.thrown).ok
              /\ call.outcome.exc.cls = ToPythonThrown(call.thrown).exc.cls
              /\ call.outcome.exc.cause # <<>>
              /\ IsStackTraceError(call.outcome.exc.cause[1])
        /\ call.d1 = call.d0

----------------------------------------------------------------------------
(* Statements about object proxies (SpecObject) *)

\* C11: getitem, setitem and delitem of an object proxy leave the value-stack
\* depth as it was before the call on every exit path: return, KeyError, and
\* TypeError from encoding the value, also a value inside a list or dict.
C11_ObjectOpsKeepDepth ==
    obj.phase = "done" => obj.d1 = obj.d0

\* C12: a function-proxy call leaves the value-stack depth as it was before
\* the call on every exit path: the script function returns, it throws, or
\* the encoding of an argument fails.
C12_FuncCallKeepsDepth ==
    (call.phase = "done" /\ call.op = "call") => call.d1 = call.d0

----------------------------------------------------------------------------
(* Statements about keys() (SpecKeys) *)

AllEnded == gens.phase = "run" /\ \A i \in Gens : ~InProgress(gens.g[i])

\* C13: once a keys() iteration has ended, by exhaustion or because the
\* consumer closed or dropped it part-way, the value-stack depth is the depth
\* before keys() was started; and a keys() call made afterwards enumerates the
\* live object afresh from its first key.
C13_KeysReleasesStack ==
    /\ (AllEnded /\ ~fatal) => Len(stack) = gens.base
    /\ gens.phase = "run" =>
          \A i \in Gens : (gens.g[i].pc = "done" /\ gens.g[i].alone) =>
                              gens.g[i].out = KeysOf(gens.g[i].o)

IsPrefix(a, b) == Len(a) <= Len(b) /\ SubSeq(b, 1, Len(a)) = a

\* C14: when two keys() iterations are in progress at the same time and the
\* host advances them in any interleaved order, each yields exactly the keys
\* of its own object, each once, and never a key of the other object.
C14_InterleavedKeys ==
    gens.phase = "run" =>
        \A i \in Gens :
            /\ IsPrefix(gens.g[i].out, KeysOf(gens.g[i].o))
            /\ gens.g[i].pc = "done" => gens.g[i].out = KeysOf(gens.g[i].o)

----------------------------------------------------------------------------
(* Statements about to_js on two contexts (SpecEncode) *)

Encoded == enc.phase = "done" /\ enc.outcome = "return"

OtherCtx(c) == IF c = "root" THEN "thread" ELSE "root"

DepthsNow == Depths(stack, enc.thread)

\* C15: a successful to_js(pyctx, v) of a supported host value makes pyctx's
\* own value stack one deeper and leaves the stack of every other context as
\* it was, also when v is a proxy obtained through another context of the
\* same engine.
C15_ToJsPushesOneOnPyctx ==
    Encoded => /\ DepthsNow[enc.pyctx] = enc.before[enc.pyctx] + 1
               /\ DepthsNow[OtherCtx(enc.pyctx)] = enc.before[OtherCtx(enc.pyctx)]

\* The value the last to_js pushed, on whichever stack became deeper.
LastPushed ==
    IF Len(stack) > enc.before["root"] THEN Top(stack) ELSE Top(enc.thread)

\* C16: encoding a host-side proxy pushes the live script value the proxy
\* stands for, the very object and no new wrapper, for a JsFunc as for a
\* JsArray, a JsDict and a JsObject.
C16_ProxyEncodesToLiveValue ==
    (Encoded /\ enc.v.k \in {"JsFunc", "JsArray", "JsDict", "JsObject"})
        => LastPushed = Ref(enc.v.addr)

----------------------------------------------------------------------------
(* Statements about to_python (SpecDecode) *)

Decoded_(op) == dec.phase = "done" /\ dec.op = op

\* C17: to_python consumes no stack slot net: when it has returned a host
\* value, for whatever kind of script value, the depth of the value stack is
\* the depth before the call.
C17_ToPythonKeepsDepth ==
    (dec.phase = "done" /\ dec.outcome = "return") => dec.d1 = dec.d0

\* to_python of the value alone on the stack, at index -1.
AtTop(val) == ToPythonAt(<<val>>, -1)

\* C18: to_python gives the same host value for a script value wherever it
\* is on the stack: every argument of a host callable that js_func_wrapper
\* has decoded, at its index below the other arguments, came out as it does
\* when decoded at the top of the stack, and the argument at which the
\* decoding stopped does not decode at the top either.
C18_SameResultAtAnyIndex ==
    Decoded_("args") =>
        /\ \A i \in 1..Len(dec.res) :
              AtTop(dec.vals[i]).outcome = "return" /\ dec.res[i] = AtTop(dec.vals[i]).res
        /\ dec.outcome # "return"
              => AtTop(dec.vals[Len(dec.res) + 1]).outcome = dec.outcome

\* C19: a function, and an object that is neither plain nor a Date, a
\* PythonError or an Error, decodes to a proxy of the live script value and
\* never to a dict copied from its properties.
C19_NonPlainDecodesToProxy ==
    (Decoded_("top") /\ dec.outcome = "return" /\ dec.vals[1].t \in {"function", "other"})
        => dec.res[1].k \in {"JsFunc", "JsArray", "JsDict"}

----------------------------------------------------------------------------
(* Statements about decoding a thrown PythonError (SpecCall) *)

\* The thrown value is a PythonError whose arguments decode and whose
\* qualified type name names no importable module or no attribute of it.
ThrownUnresolved(th) ==
    /\ th.t = "PythonError"
    /\ ToPython(th.args).k # "raise"
    /\ Lookup(RSplit(th.exc_name).module, RSplit(th.exc_name).name).err # ""

\* C20: when the type a PythonError names cannot be resolved on the host,
\* decoding it does not fail with the lookup error: the caller gets the
\* generic duktape Error.
C20_UnresolvedNameFallsBack ==
    (call.phase = "done" /\ call.rc # 0 /\ ThrownUnresolved(call.thrown))
        => /\ call.outcome.kind = "raise"
           /\ call.outcome.exc.cls = DukErrorCls

----------------------------------------------------------------------------
(* Statements about decoding primitives (SpecCall) *)

\* A script that evaluated to a value without throwing, through Context.eval.
EvalReturned == call.phase = "done" /\ call.op = "eval" /\ call.script.body = "value"

\* C21: to_python decodes a script boolean to a bool and never to an int, NaN
\* to the float NaN, null and undefined to None, a number whose value is
\* integral to the int of that value (1+1 to the int 2), any other number to
\* a float of that value, and a string to text.
C21_PrimitiveClassification ==
    EvalReturned =>
        /\ call.outcome.kind = "return"
        /\ \E j \in {call.script.val} : \E v \in {call.outcome.val} :
              /\ j.t = "bool" => v.k = "bool" /\ v.n = j.n
              /\ j.t = "nan" => v.k = "nan"
              /\ j.t \in {"null", "undefined"} => v.k = "none"
              /\ (j.t = "num" /\ j.n % 2 = 0) => v.k = "int" /\ 2 * v.n = j.n
              /\ (j.t = "num" /\ j.n % 2 = 1) => v.k = "float" /\ v.n = j.n
              /\ j.t = "inf" => v.k = "inf"
              /\ j.t = "str" => v.k = "str" /\ v.cps = j.by

\* eval("1+1") has returned the int 2.
C21_Witness ==
    EvalReturned /\ call.script.val = JsNum(4) /\ call.outcome.val = PyInt(2)

----------------------------------------------------------------------------
(* Statements about decoding script strings (SpecString) *)

\* The bytes of a string with every CESU-8 surrogate pair recombined into its
\* 4-byte UTF-8 sequence and every other byte passed through.
RECURSIVE Recombined(_, _)
Recombined(b, i) ==
    IF i > Len(b) THEN <<>>
    ELSE IF IsSurrogatePairAt(b, i) THEN PairToUtf8(b, i) \o Recombined(b, i + 6)
    ELSE <<b[i]>> \o Recombined(b, i + 1)

\* C22: decoding a script string changes nothing but the surrogate pairs: the
\* bytes handed to the UTF-8 decoder are the string's bytes, zero bytes
\* included, with each pair recombined, so no byte is dropped.
C22_NoByteDropped ==
    txt.phase = "decoded" => txt.utf8 = Recombined(txt.by, 1)

----------------------------------------------------------------------------
(* Statements about ArrayProxy.put (SpecPut) *)

\* The elements now of the array the last put was made on.
PutArrayNow == objs[last.val.v].elems

\* C23: put(i, v) with i >= length raises IndexError and leaves the array as
\* it was; with 0 <= i < length it puts v at i and leaves the length and
\* every other element as they were.
C23_PutReplacesInPlace ==
    (last.op = "put" /\ last.idx >= 0) =>
        IF last.idx >= Len(last.arr)
        THEN last.outcome = "IndexError" /\ PutArrayNow = last.arr
        ELSE /\ last.outcome = "ok"
             /\ Len(PutArrayNow) = Len(last.arr)
             /\ PutArrayNow[last.idx + 1] = Num(last.n)
             /\ \A j \in 1..Len(last.arr) : j # last.idx + 1 => PutArrayNow[j] = last.arr[j]

\* A put at the second place of an array of two has replaced that element
\* and kept the first.
C23_Witness ==
    /\ last.op = "put"
    /\ last.outcome = "ok"
    /\ last.idx = 1
    /\ Len(last.arr) = 2
    /\ PutArrayNow = <<last.arr[1], Num(last.n)>>

----------------------------------------------------------------------------
(* Statements about missing keys of object proxies (SpecObject) *)

\* C24: getitem(k) and delitem(k) raise KeyError exactly when k is not one of
\* the object's own properties, the keys that keys() yields; after a
\* delitem(k) that returned, k is not an own property and is no longer found.
C24_KeyErrorIffNotOwnKey ==
    (obj.phase = "done" /\ obj.op \in {"getitem", "delitem"}) =>
        /\ obj.outcome = "KeyError" <=> obj.key \notin obj.before
        /\ (obj.op = "delitem" /\ obj.outcome = "return")
              => obj.key \notin obj.keys /\ ~HasProp(obj.keys, obj.key)

----------------------------------------------------------------------------
(* Statements about execution contexts (SpecThreads) *)

\* The context whose global namespace context c uses, by the way the
\* contexts were made: the root and a context made by new_thread(True) use
\* their own, a context made by new_thread(False) uses that of its parent.
RECURSIVE NamespaceOf(_, _)
NamespaceOf(ctxs, c) ==
    IF c = Root \/ ctxs[c].ptr = {} THEN c ELSE NamespaceOf(ctxs, ctxs[c].parent)

LiveCtxs(w) == {c \in CtxIds : w.ctxs[c].live}

\* C25: when a global is set through a context, every context that shares
\* its namespace (the parent of a context made by new_thread(False), its
\* siblings made the same way, and the other way round) reads the new value
\* at once, and every other context (one made by new_thread(True), its
\* parent, its siblings) reads what it read before.
C25_GlobalsSharedOrIsolated ==
    [][thr'.last.op = "setitem" =>
          \A d \in LiveCtxs(thr.w) :
              IF NamespaceOf(thr.w.ctxs, d) = NamespaceOf(thr.w.ctxs, thr'.last.on)
              THEN Views(thr'.w)[d][thr'.last.key] = thr'.last.val
              ELSE Views(thr'.w)[d] = Views(thr.w)[d]]_vars

\* A global has been set through a context made by new_thread(False) whose
\* sibling was made by new_thread(True): the parent reads the value, the
\* isolated sibling does not.
C25_Witness ==
    /\ thr.phase = "run"
    /\ thr.last.op = "setitem"
    /\ \E t \in ThreadIds, i \in ThreadIds :
          /\ t # i /\ thr.last.on = t
          /\ thr.w.ctxs[t].live /\ thr.w.ctxs[i].live
          /\ thr.w.ctxs[t].parent = Root /\ thr.w.ctxs[i].parent = Root
          /\ thr.w.ctxs[t].ptr # {} /\ thr.w.ctxs[i].ptr = {}
          /\ Views(thr.w)[Root][thr.last.key] = thr.last.val
          /\ Views(thr.w)[i][thr.last.key] # thr.last.val

\* C26: the heap is destroyed at most once, and exactly when the root
\* Context has been deallocated; while a ThreadContext exists or host code
\* holds a proxy or a context the heap is alive, so every operation ran on a
\* live heap, and the deallocation of a ThreadContext leaves it alive.
C26_HeapOutlivesHandles ==
    thr.phase = "run" =>
        /\ thr.w.destroyed = (IF thr.w.ctxs[Root].live THEN 0 ELSE 1)
        /\ thr.w.heap = (IF thr.w.ctxs[Root].live THEN "alive" ELSE "destroyed")
        /\ \A c \in CtxIds :
              (thr.w.ctxs[c].live \/ thr.w.ctxs[c].held \/ thr.w.ctxs[c].proxy)
                  => thr.w.heap = "alive"
        /\ thr.last.heap = "alive"

\* Host code let go of the root first and of the proxy of a ThreadContext
\* last: the heap was destroyed only then.
C26_Witness ==
    /\ thr.phase = "run"
    /\ thr.last.op = "drop_proxy"
    /\ thr.last.on \in ThreadIds
    /\ thr.w.heap = "destroyed"
    /\ thr.w.destroyed = 1

\* The ThreadContexts that exist and were made by new_thread on a context
\* running in global environment e.
ThreadsMadeIn(w, e) ==
    {t \in ThreadIds : w.ctxs[t].live /\ w.ctxs[w.ctxs[t].parent].env = e}

\* C29: at every state the keys of _threads in the global stash of an
\* environment are exactly the ThreadContexts made by new_thread on a
\* context of that environment that have not been finalized, and new_thread
\* leaves the depth of the parent's value stack as it was.
C29_ThreadsTableMatchesHandles ==
    thr.phase = "run" =>
        /\ \A e \in CtxIds : thr.w.envs[e].threads = ThreadsMadeIn(thr.w, e)
        /\ thr.last.op = "new_thread" => thr.w.ctxs[thr.last.on].depth = thr.last.d0

\* new_thread has just returned a ThreadContext made on another
\* ThreadContext, in a slot that an earlier, finalized ThreadContext left,
\* with a value on the parent's stack.
C29_Witness ==
    /\ thr.phase = "run"
    /\ thr.last.op = "new_thread"
    /\ thr.last.on \in ThreadIds
    /\ thr.last.d0 = 1
    /\ thr.last.made \in thr.w.envs[thr.w.ctxs[thr.last.on].env].threads
    /\ thr.w.ctxs[thr.last.made].held

----------------------------------------------------------------------------
(* Statements about timezone-aware values (SpecZone) *)

\* The instant of a host value in UTC, as microseconds since the epoch: its
\* wall clock for a naive value, its wall clock less its offset for an aware
\* one.
UtcInstant(v, tz) ==
    NormUsec(Usec(v.days, v.secs - (IF tz.aware THEN tz.off ELSE 0), v.us))

\* C27: every datetime, date and time, naive or aware, is encoded, and
\* epoch_usec is its instant in UTC.
C27_EveryDateEncodesAsUtc ==
    dat.phase = "encoded" =>
        /\ dat.outcome = "return"
        /\ dat.epoch_usec = UtcInstant(dat.v, dat.tz)

\* The same for every value but an aware time.
AllButAwareTimeEncodeAsUtc ==
    (dat.phase = "encoded" /\ ~(dat.v.typ = "time" /\ dat.tz.aware)) =>
        /\ dat.outcome = "return"
        /\ dat.epoch_usec = UtcInstant(dat.v, dat.tz)

----------------------------------------------------------------------------
(* Statements about host closures (SpecFunc) *)

WrappersOf(f, sts) == {w \in WrapIds : fn.wraps[w].of = f /\ fn.wraps[w].st \in sts}

----------------------------------------------------------------------------
(* Statements about ArrayProxy.delete and ArrayProxy.insert (SpecSplice) *)

ElemsOf(os, k) == os[ProxiedArray(k).v].elems

----------------------------------------------------------------------------
(* Statements about the stack between host-level operations (SpecCall) *)

\* C32: Context.eval and Context.load leave the depth of the value stack as
\* it was before the call, whether they return or raise.
C32_StackBalancedAcrossCalls ==
    (call.phase = "done" /\ call.op \in {"eval", "load"}) => call.d1 = call.d0

\* The same for Context.load alone, when the script returns.
LoadReturnedBalanced ==
    (call.phase = "done" /\ call.op = "load" /\ call.rc = 0) => call.d1 = call.d0

----------------------------------------------------------------------------
(* Statements about a failing to_js (SpecPush) *)

\* C33: when to_js raises TypeError or ValueError the depth of the value
\* stack is what it was before the call.
C33_FailedToJsKeepsDepth ==
    (enc.phase = "pushed" /\ ~enc.ok) => enc.d1 = enc.d0

\* The same for the values that fail before anything is pushed: a value
\* to_js has no branch for, not inside a container, and an undefined global.
FailedAtTopKeepsDepth ==
    (enc.phase = "pushed" /\ ~enc.ok
       /\ (IF enc.what.new THEN enc.exc = "ValueError" ELSE enc.what.v = PyOpaque))
        => enc.d1 = enc.d0

----------------------------------------------------------------------------
(* Statements about slices of a script array (SpecSlice) *)

\* The indexes the host language gives the slice [a:b:s] of a list of n
\* elements, for a step that is not zero.
PySliceStart(a, s, n) ==
    IF s > 0
    THEN (IF a.none THEN 0
          ELSE IF a.v < 0 THEN (IF a.v + n < 0 THEN 0 ELSE a.v + n)
          ELSE Min({a.v, n}))
    ELSE (IF a.none THEN n - 1
          ELSE IF a.v < 0 THEN (IF a.v + n < 0 - 1 THEN 0 - 1 ELSE a.v + n)
          ELSE Min({a.v, n - 1}))
PySliceStop(b, s, n) ==
    IF s > 0
    THEN (IF b.none THEN n
          ELSE IF b.v < 0 THEN (IF b.v + n < 0 THEN 0 ELSE b.v + n)
          ELSE Min({b.v, n}))
    ELSE (IF b.none THEN 0 - 1
          ELSE IF b.v < 0 THEN (IF b.v + n < 0 - 1 THEN 0 - 1 ELSE b.v + n)
          ELSE Min({b.v, n - 1}))
PySlice(arr, a, b, s) ==
    LET step == IF s.none THEN 1 ELSE s.v
        idxs == XRange(PySliceStart(a, step, Len(arr)), PySliceStop(b, step, Len(arr)), step)
    IN [j \in 1..Len(idxs) |-> arr[idxs[j] + 1]]

\* What get(slice(a, b, s)) on the array proxy in slot k gives in this state.
SliceOf(k, a, b, s) == SliceRun(Mach(stack, FALSE), objs, refMap, proxies[k].ref, a, b, s)
IsHostSlice(r, a, b, s) == r.outcome = "list" /\ r.vals = PySlice(r.arr, a, b, s)

\* The array proxies of numbers ArraySlice can be called on.
Sliceable(k) ==
    /\ ~fatal
    /\ proxies[k].kind = "JsArray"
    /\ \A e \in Range(objs[ProxiedArray(k).v].elems) : e.t = "num"

\* C34: get(slice(a, b, s)) returns the elements of [a:b:s] of the list of
\* all elements of the array, in that order, for every combination of bounds.
C34_SliceIsHostSlice ==
    \A k \in Slots, a \in SliceBounds, b \in SliceBounds, s \in SliceSteps :
        Sliceable(k) =>
            \E r \in {SliceOf(k, a, b, s)} :
                r.outcome # "fatal" => IsHostSlice(r, a, b, s)

\* It does so when the start is omitted or not negative, the stop is omitted
\* or positive, and the step is omitted or positive.
SliceOfForwardBoundsIsHostSlice ==
    \A k \in Slots, a \in SliceBounds, b \in SliceBounds, s \in SliceSteps :
        (Sliceable(k) /\ (a.none \/ a.v >= 0) /\ (b.none \/ b.v > 0) /\ (s.none \/ s.v > 0))
            => \E r \in {SliceOf(k, a, b, s)} :
                  r.outcome # "fatal" => IsHostSlice(r, a, b, s)

----------------------------------------------------------------------------
(* Statements about init_thread_only (SpecInitOnly) *)

\* init_thread_only, called for a key that names a ThreadOnly, installed the
\* instance of that ThreadOnly's own constructor and kept the stack depth.
InitOnlyDidIt ==
    /\ thr.last.outcome = "ok"
    /\ thr.w.stash[thr.last.c][thr.last.a] = Inst(thr.w.heap[thr.last.a].ctor, 0)
    /\ thr.last.d1 = thr.last.d0

\* C35: init_thread_only(key) for an existing ThreadOnly constructs the
\* instance with the ThreadOnly's own constructor, installs it in the thread
\* stash of the context and leaves the stack depth unchanged, whatever was
\* done on the context before.
C35_InitThreadOnlyAfterAnything ==
    (thr.phase = "only" /\ thr.last.op = "init_thread_only" /\ thr.last.a # 0)
        => InitOnlyDidIt

\* It does so on a context whose value stack is empty.
InitThreadOnlyOnEmptyStack ==
    (thr.phase = "only" /\ thr.last.op = "init_thread_only" /\ thr.last.a # 0
       /\ thr.last.d0 = 0)
        => InitOnlyDidIt

----------------------------------------------------------------------------
(* Statements about reads and writes of a ThreadOnly (SpecOnly) *)

\* C38: a read or write of a ThreadOnly in a context that has not called
\* init_thread_only for this object raises "<name> has not been
\* initialized!"; reads and writes act on the instance the running context
\* installed, never on that of another context.
C38_ThreadOnlyActsOnOwnInstance ==
    (thr.phase = "only" /\ thr.last.op \in {"read", "write"})
        => /\ thr.last.outcome = (IF thr.last.inited THEN "ok" ELSE "not initialized")
           /\ thr.last.outcome = "ok"
                => thr.last.val = thr.w.stash[thr.last.c][thr.last.a].x

\* A write changes the thread stash of no other context, and none at all
\* when it raises.
WritesStayInContext ==
    [][\A c \in CtxIds, key \in OnlyNames, v \in OnlyVals :
          OnlyWrite(c, key, v)
              => /\ \A d \in CtxIds \ {c} : thr'.w.stash[d] = thr.w.stash[d]
                 /\ thr'.last.outcome = "not initialized" => thr'.w.stash = thr.w.stash]_vars

\* A context that called init_thread_only for the object reads and writes its
\* own instance, and the root context, which has no init_thread_only, always
\* gets the error.
InitializedContextUsesOwnInstance ==
    (thr.phase = "only" /\ thr.last.op \in {"read", "write"})
        => /\ thr.last.inited
                => /\ thr.last.outcome = "ok"
                   /\ thr.last.val = thr.w.stash[thr.last.c][thr.last.a].x
           /\ thr.last.c = Root => thr.last.outcome = "not initialized"

----------------------------------------------------------------------------
(* Statements about the termination of decoding (SpecCycle) *)

\* The arrays reachable from array 1 in k steps, and whether one of them
\* reaches itself.
RECURSIVE GraphReach(_, _, _)
GraphReach(g, from, k) ==
    IF k = 0 THEN from
    ELSE GraphReach(g, from \cup {e.v : e \in {x \in UNION {Range(g[n]) : n \in from} : x.t = "obj"}},
                    k - 1)
GraphCyclic(g) ==
    \E n \in GraphReach(g, {1}, Cardinality(GraphNodes)) :
        n \in GraphReach(g, {e.v : e \in {x \in Range(g[n]) : x.t = "obj"}},
                         Cardinality(GraphNodes))

\* C36: to_python returns or raises a conversion error after finitely many
\* steps for every graph of arrays, cyclic ones included.
C36_DecodingTerminates ==
    <>(dec.phase \in {"returned", "raised"})

\* It returns for every graph without a cycle.
DecodingOfAcyclicTerminates ==
    (dec.phase = "input" /\ ~GraphCyclic(dec.g)) ~> (dec.phase = "returned")

\* It never returns for a graph with a cycle.
DecodingOfCyclicNeverReturns ==
    (dec.phase = "returned") => ~GraphCyclic(dec.g)

----------------------------------------------------------------------------
(* Statements about the hidden tags of an encoded Date (SpecStamp) *)

\* What the claim says of a decoding: after a call of a set method the
\* datetime of the current time value, before it the stored count and type.
StampExpected ==
    IF dat.called THEN DateOut("return", dat.d.ms * 1000, "datetime")
    ELSE DateOut("return", dat.stale, dat.d.typ)

\* C37: after script calls a method whose name starts with "set" the hidden
\* tags are gone and every later decoding gives the datetime of the current
\* getTime() value; until then decoding gives the stored microsecond count.
C37_SetDropsTheTags ==
    dat.phase = "stamp"
        => /\ dat.called => ~dat.d.tagged
           /\ dat.last.op = "decode" => dat.last.out = StampExpected

\* The same for the decodings of the Date at the top of the stack.
C37_AtTopOfStack ==
    dat.phase = "stamp"
        => /\ dat.called => ~dat.d.tagged
           /\ (dat.last.op = "decode" /\ dat.last.idx = 0 - 1) => dat.last.out = StampExpected

----------------------------------------------------------------------------
(* Statements about finalizers that run during other operations (SpecFinal) *)

\* C39: finalize_proxy, whether the count reaches zero or not, and
\* finalize_thread leave the value stack as it was, also when they run while
\* keys() iterations are suspended between push_proxy_ref and pop_proxy_ref.
C39_FinalizersKeepTheStack ==
    [][/\ \A o \in Addrs : ProxyFinalizer(o) => (stack' = stack /\ ~fatal')
       /\ \A t \in ThreadIds : ThreadFinalizer(t) => (stack' = stack /\ ~fatal')]_vars

\* A finalizer of the branch that deletes the entry has run while an
\* iteration was suspended with its values on the stack.
C39_Witness ==
    /\ last.op = "finalize_proxy"
    /\ last.outcome = "ok"
    /\ last.n > 0
    /\ Len(stack) >= 3
    /\ \E a \in Addrs : RefIdOf(a) \notin DOMAIN refCount
    /\ thr.keys = {}

====
